---- MODULE Spec2Model ----
(***************************************************************************)
(* TriUnity node core: the synchronization manager                         *)
(* (src/core/network/sync.rs), block validation                            *)
(* (src/core/storage/blocks.rs) and the Merkle tree                        *)
(* (src/storage/merkle.rs), and the consensus router                       *)
(* (src/core/consensus/router.rs).                                         *)
(*                                                                         *)
(* f64 values (reliability, sync_speed, the router's metrics and weights)  *)
(* are exact decimals [n, k] standing for n / 10^k, and the quotient by 3  *)
(* in the router's confidence is an exact fraction.  Heights are far below *)
(* 2^64, so u64 arithmetic does not wrap.  SHA3-256 is an injective        *)
(* constructor over byte strings.                                          *)
(***************************************************************************)
EXTENDS Integers, Sequences, FiniteSets, TLC

VARIABLES
    current_height, target_height, sync_mode, pending_blocks, sync_peers,
        \* the fields of SyncManager
    applied,    \* heights of the blocks handed to apply_block, in call order
    in_flight,  \* the request create_sync_request returned, awaiting its response
    progress,   \* the result of the last get_sync_progress
    tree,       \* a MerkleTree
    proof,      \* the result of the last generate_proof on it
    proof_index,    \* the index that call was given
    candidate,  \* a Block as received from the network
    candidate_valid,    \* the result of the last Block::validate on it
    tx_valid,   \* the result of the last Transaction::validate on one of its transactions
    network_metrics, ai_model,
        \* the fields of ConsensusRouter that its decisions read or write
    path        \* the result of the last select_optimal_path

syncVars == <<current_height, target_height, sync_mode, pending_blocks, sync_peers,
              applied, in_flight, progress>>

merkleVars == <<tree, proof, proof_index>>

routerVars == <<network_metrics, ai_model, path>>

blockVars == <<candidate, candidate_valid, tx_valid>>

vars == <<syncVars, merkleVars, routerVars, blockVars>>

(***************************************************************************)
(* Program constants                                                       *)
(***************************************************************************)
SyncGapThreshold == 10
FastSyncGap == 1000
FullSyncGap == 100
CheckpointDistance == 100
FastSyncMaxBlocks == 100
FullSyncWindow == 50
FullSyncMaxBlocks == 50
BlockSyncMaxBlocks == 20
PeerIdPrefixLen == 4
EmergencyMinValidators == 10
FastLaneMinValidators == 21
FastLaneTps == 100000
FastLaneFinality == 100
SecureLaneTps == 5000
SecureLaneLatency == 2000
EmergencyTps == 1000
EmergencyLatency == 5000
HybridFastValidators == 50

(***************************************************************************)
(* Bounds of the model                                                     *)
(***************************************************************************)
MaxRespBlocks == 2
MaxPending == 1
MaxRelDigits == 2
MaxLiveRelDigits == 4
MaxLeaves == 7
MaxPenalties == 1
MaxRun == 12
MaxStalled == 2
MaxApplied == 13
MaxTxs == 2
MaxReported == 3
MaxUpdates == 5
MaxRootTxs == 5

(***************************************************************************)
(* Exact decimals for the f64 fields                                       *)
(***************************************************************************)
RECURSIVE Pow10(_)
Pow10(k) == IF k = 0 THEN 1 ELSE 10 * Pow10(k - 1)

Dec(n, k) == [n |-> n, k |-> k]

RECURSIVE DecNorm(_)
DecNorm(d) == IF d.k > 0 /\ d.n % 10 = 0 THEN DecNorm(Dec(d.n \div 10, d.k - 1)) ELSE d

DecMul(a, b) == DecNorm(Dec(a.n * b.n, a.k + b.k))

DecAdd(a, b) ==
    LET k == IF a.k > b.k THEN a.k ELSE b.k
    IN DecNorm(Dec(a.n * Pow10(k - a.k) + b.n * Pow10(k - b.k), k))

DecGT(a, b) ==
    LET k == IF a.k > b.k THEN a.k ELSE b.k
    IN a.n * Pow10(k - a.k) > b.n * Pow10(k - b.k)

DecMax(a, b) == IF DecGT(b, a) THEN b ELSE a

DecSub(a, b) == DecAdd(a, Dec(0 - b.n, b.k))

DecLT(a, b) == DecGT(b, a)

DecMin(a, b) == IF DecLT(b, a) THEN b ELSE a

RECURSIVE GCD(_, _)
GCD(a, b) == IF b = 0 THEN a ELSE GCD(b, a % b)

\* the fraction num / den in lowest terms, den > 0
Ratio(num, den) ==
    LET g == GCD(IF num < 0 THEN 0 - num ELSE num, den)
    IN [num |-> num \div g, den |-> den \div g]

RatioOfDec(d) == Ratio(d.n, Pow10(d.k))

\* f64 division of a decimal by a whole number
DecDiv(d, by) == Ratio(d.n, by * Pow10(d.k))

RatioLT(a, b) == a.num * b.den < b.num * a.den

Max(a, b) == IF a > b THEN a ELSE b

RatioAdd(a, b) == Ratio(a.num * b.den + b.num * a.den, a.den * b.den)

RatioMul(a, b) == Ratio(a.num * b.num, a.den * b.den)

RatioMin(a, b) == IF RatioLT(b, a) THEN b ELSE a

\* an f64 cast to u64: the fraction is dropped and a negative value gives 0
AsU64(r) == IF r.num < 0 THEN 0 ELSE r.num \div r.den

DefaultSyncSpeed == Dec(10, 0)
DefaultReliability == Dec(8, 1)
EligibleReliability == Dec(5, 1)
PenaltyFactor == Dec(5, 1)
ReliabilityFloor == Dec(1, 1)
RewardFactor == Dec(9, 1)
RewardStep == Dec(1, 1)
CleanupReliability == Dec(1, 1)

\* F applied to the value of x, with x evaluated once.
Bind(x, F(_)) == CHOOSE y \in {F(v) : v \in {x}} : TRUE

SatSub(a, b) == IF a > b THEN a - b ELSE 0

Min(a, b) == IF a < b THEN a ELSE b

(***************************************************************************)
(* SHA3-256 as an injective constructor.  A byte string is a sequence of   *)
(* atoms: <<b>> is the byte b, a digest stands for its 32 bytes.           *)
(***************************************************************************)
Sha3(bytes) == <<0, bytes>>

ZeroHash == <<0, 0, 0>>

Byte(b) == <<b>>

U64(n) == <<n>>

(***************************************************************************)
(* Transactions and blocks (src/core/storage/blocks.rs)                    *)
(***************************************************************************)
\* bincode of the signing tuple (from, to, amount, fee, nonce, data): each
\* Vec<u8> is length-prefixed, each u64 is one fixed-width field.
SigningData(tx) ==
    <<U64(Len(tx.from))>> \o tx.from \o <<U64(Len(tx.to))>> \o tx.to
        \o <<U64(tx.amount), U64(tx.fee), U64(tx.nonce)>>
        \o <<U64(Len(tx.data))>> \o tx.data

\* QuantumSignature::verify: the signature verifies for one message under
\* one public key.
SignatureVerify(signature, message, public_key) ==
    /\ signature.key = public_key
    /\ signature.message = message

\* as TransactionValidate, without the test for an empty transfer
TransactionValidate_any_amount(tx) ==
    IF tx.from = <<>> \/ tx.to = <<>> THEN FALSE
    ELSE SignatureVerify(tx.signature, SigningData(tx), tx.from)

TransactionValidate(tx) ==
    IF tx.from = <<>> \/ tx.to = <<>> THEN FALSE
    ELSE IF tx.amount = 0 /\ tx.data = <<>> THEN FALSE
    ELSE SignatureVerify(tx.signature, SigningData(tx), tx.from)

\* bincode of the whole transaction: the signed fields, then the signature.
TxBytes(tx) ==
    SigningData(tx) \o <<U64(Len(tx.signature.key))>> \o tx.signature.key
        \o <<U64(Len(tx.signature.message))>> \o tx.signature.message

\* as NextLevel, carrying the last node of an odd level up as it is
RECURSIVE NextLevel_promotes_odd(_)
NextLevel_promotes_odd(hashes) ==
    IF hashes = <<>> THEN <<>>
    ELSE IF Len(hashes) = 1 THEN <<hashes[1]>>
    ELSE <<Sha3(<<hashes[1], hashes[2]>>)>>
            \o NextLevel_promotes_odd(SubSeq(hashes, 3, Len(hashes)))

RECURSIVE NextLevel(_)
NextLevel(hashes) ==
    IF hashes = <<>> THEN <<>>
    ELSE IF Len(hashes) = 1 THEN <<Sha3(<<hashes[1], hashes[1]>>)>>
    ELSE <<Sha3(<<hashes[1], hashes[2]>>)>> \o NextLevel(SubSeq(hashes, 3, Len(hashes)))

RECURSIVE ReduceLevels(_)
ReduceLevels(hashes) ==
    IF Len(hashes) > 1 THEN ReduceLevels(NextLevel(hashes)) ELSE hashes[1]

BlockCalculateMerkleRoot(transactions) ==
    IF transactions = <<>> THEN ZeroHash
    ELSE ReduceLevels([i \in 1..Len(transactions) |-> Sha3(TxBytes(transactions[i]))])

\* as BlockValidate, without the comparison of the Merkle roots
BlockValidate_any_root(block) ==
    IF block.header.version = 0 THEN FALSE
    ELSE \A i \in 1..Len(block.transactions) : TransactionValidate(block.transactions[i])

BlockValidate(block) ==
    IF block.header.version = 0 THEN FALSE
    ELSE IF BlockCalculateMerkleRoot(block.transactions) # block.header.merkle_root THEN FALSE
    ELSE \A i \in 1..Len(block.transactions) : TransactionValidate(block.transactions[i])

\* Block::new; the timestamp and the consensus data, which no decision reads,
\* are left out of the header.
BlockNew(previous_hash, transactions, height) ==
    [header |-> [version |-> 1, previous_hash |-> previous_hash,
                 merkle_root |-> BlockCalculateMerkleRoot(transactions),
                 height |-> height],
     transactions |-> transactions]

\* Block::hash: the digest of the bincode of the header
BlockHash(b) ==
    Sha3(<<U64(b.header.version), b.header.previous_hash, b.header.merkle_root,
           U64(b.header.height)>>)

(***************************************************************************)
(* MerkleTree (src/storage/merkle.rs)                                      *)
(***************************************************************************)
None == [some |-> FALSE]

Some(value) == [some |-> TRUE, value |-> value]

\* as MerkleNextLevel, hashing the left node of every pair twice
RECURSIVE MerkleNextLevel_left_only(_)
MerkleNextLevel_left_only(hashes) ==
    IF hashes = <<>> THEN <<>>
    ELSE IF Len(hashes) = 1 THEN <<Sha3(<<hashes[1], hashes[1]>>)>>
    ELSE <<Sha3(<<hashes[1], hashes[1]>>)>>
            \o MerkleNextLevel_left_only(SubSeq(hashes, 3, Len(hashes)))

RECURSIVE MerkleNextLevel(_)
MerkleNextLevel(hashes) ==
    IF hashes = <<>> THEN <<>>
    ELSE IF Len(hashes) = 1 THEN <<Sha3(<<hashes[1], hashes[1]>>)>>
    ELSE <<Sha3(<<hashes[1], hashes[2]>>)>>
            \o MerkleNextLevel(SubSeq(hashes, 3, Len(hashes)))

RECURSIVE calculate_root(_)
calculate_root(leaves) ==
    IF leaves = <<>> THEN ZeroHash
    ELSE IF Len(leaves) > 1 THEN calculate_root(MerkleNextLevel(leaves))
    ELSE leaves[1]

MerkleTreeNew(data) ==
    IF data = <<>> THEN [root |-> ZeroHash, leaves |-> <<>>]
    ELSE LET leaves == [i \in 1..Len(data) |-> Sha3(data[i])]
         IN [root |-> calculate_root(leaves), leaves |-> leaves]

\* The while loop of generate_proof; index counts from 0 as in the source.
RECURSIVE ProofPath(_, _)
ProofPath(current_level, current_index) ==
    IF Len(current_level) <= 1 THEN <<>>
    ELSE LET is_right == current_index % 2 = 1
             sibling_index == IF is_right THEN current_index - 1 ELSE current_index + 1
         IN (IF sibling_index < Len(current_level)
             THEN <<[hash |-> current_level[sibling_index + 1], is_right |-> ~is_right]>>
             ELSE <<>>)
                \o ProofPath(MerkleNextLevel(current_level), current_index \div 2)

\* as generate_proof, answering an index past the end for the last leaf
generate_proof_clamped(self, index) ==
    IF self.leaves = <<>> THEN None
    ELSE LET last == Min(index, Len(self.leaves) - 1)
         IN Some([leaf_hash |-> self.leaves[last + 1],
                  proof |-> ProofPath(self.leaves, last),
                  root |-> self.root])

generate_proof(self, index) ==
    IF index >= Len(self.leaves) THEN None
    ELSE Some([leaf_hash |-> self.leaves[index + 1],
               proof |-> ProofPath(self.leaves, index),
               root |-> self.root])

RECURSIVE FoldProof(_, _)
FoldProof(current_hash, elements) ==
    IF elements = <<>> THEN current_hash
    ELSE FoldProof(IF elements[1].is_right
                   THEN Sha3(<<current_hash, elements[1].hash>>)
                   ELSE Sha3(<<elements[1].hash, current_hash>>),
                   Tail(elements))

verify_proof(p) == FoldProof(p.leaf_hash, p.proof) = p.root

(***************************************************************************)
(* SyncManager (src/core/network/sync.rs)                                  *)
(***************************************************************************)
Synced == [kind |-> "Synced"]

FastSync(checkpoint_height) == [kind |-> "FastSync", checkpoint_height |-> checkpoint_height]

FullSync(start_height) == [kind |-> "FullSync", start_height |-> start_height]

BlockSync(lo, hi) == [kind |-> "BlockSync", missing_range |-> <<lo, hi>>]

SyncPeer(node_id, height) ==
    [node_id |-> node_id, reported_height |-> height, sync_speed |-> DefaultSyncSpeed,
     reliability |-> DefaultReliability, is_syncing |-> FALSE]

SyncManagerNew(height) ==
    [current_height |-> height, target_height |-> height, sync_mode |-> Synced,
     pending_blocks |-> <<>>, sync_peers |-> <<>>]

\* Index of the first peer with this node_id, 0 when there is none
\* (iter_mut().find).
FindPeer(peers, node_id) ==
    IF \E i \in 1..Len(peers) : peers[i].node_id = node_id
    THEN CHOOSE i \in 1..Len(peers) :
            /\ peers[i].node_id = node_id
            /\ \A j \in 1..(i - 1) : peers[j].node_id # node_id
    ELSE 0

\* as update_peer_height, without the lookup of a peer already known
update_peer_height_always_push(self, node_id, height) ==
    [self EXCEPT !.sync_peers = Append(@, SyncPeer(node_id, height))]

\* as update_peer_height, giving a known peer a fresh record too
update_peer_height_resets_known(self, node_id, height) ==
    LET i == FindPeer(self.sync_peers, node_id)
    IN IF i # 0
       THEN [self EXCEPT !.sync_peers[i] = SyncPeer(node_id, height)]
       ELSE [self EXCEPT !.sync_peers = Append(@, SyncPeer(node_id, height))]

update_peer_height(self, node_id, height) ==
    LET i == FindPeer(self.sync_peers, node_id)
    IN IF i # 0
       THEN [self EXCEPT !.sync_peers[i].reported_height = height]
       ELSE [self EXCEPT !.sync_peers = Append(@, SyncPeer(node_id, height))]

RECURSIVE UpdatePeers(_, _)
UpdatePeers(self, peer_heights) ==
    IF peer_heights = <<>> THEN self
    ELSE UpdatePeers(update_peer_height(self, peer_heights[1][1], peer_heights[1][2]),
                     Tail(peer_heights))

MaxHeight(peer_heights) ==
    CHOOSE h \in {peer_heights[i][2] : i \in 1..Len(peer_heights)} :
        \A i \in 1..Len(peer_heights) : peer_heights[i][2] <= h

\* as start_sync, with >= for > in both comparisons
start_sync_inclusive(self, height_diff) ==
    [self EXCEPT !.sync_mode =
        IF height_diff >= FastSyncGap
        THEN FastSync(SatSub(self.target_height, CheckpointDistance))
        ELSE IF height_diff >= FullSyncGap
        THEN FullSync(self.current_height + 1)
        ELSE BlockSync(self.current_height + 1, self.target_height)]

start_sync(self, height_diff) ==
    [self EXCEPT !.sync_mode =
        IF height_diff > FastSyncGap
        THEN FastSync(SatSub(self.target_height, CheckpointDistance))
        ELSE IF height_diff > FullSyncGap
        THEN FullSync(self.current_height + 1)
        ELSE BlockSync(self.current_height + 1, self.target_height)]

\* as check_sync_needed, leaving the mode alone when the gap is small
check_sync_needed_keeps_mode(self, peer_heights) ==
    IF peer_heights = <<>> THEN [self |-> self, ret |-> FALSE]
    ELSE LET max_peer_height == MaxHeight(peer_heights)
             updated == UpdatePeers(self, peer_heights)
             height_diff == SatSub(max_peer_height, updated.current_height)
         IN IF height_diff > SyncGapThreshold
            THEN [self |-> start_sync([updated EXCEPT !.target_height = max_peer_height],
                                      height_diff),
                  ret |-> TRUE]
            ELSE [self |-> updated, ret |-> FALSE]

check_sync_needed(self, peer_heights) ==
    IF peer_heights = <<>> THEN [self |-> self, ret |-> FALSE]
    ELSE LET max_peer_height == MaxHeight(peer_heights)
             updated == UpdatePeers(self, peer_heights)
             height_diff == SatSub(max_peer_height, updated.current_height)
         IN IF height_diff > SyncGapThreshold
            THEN [self |-> start_sync([updated EXCEPT !.target_height = max_peer_height],
                                      height_diff),
                  ret |-> TRUE]
            ELSE [self |-> [updated EXCEPT !.sync_mode = Synced], ret |-> FALSE]

\* as validate_block, refusing a block that names no predecessor
validate_block_linked(self, block) == block.header.previous_hash # ZeroHash

\* "TODO: Implement proper block validation ... just return true"
validate_block(self, block) == TRUE

penalize_peer(self, peer_id) ==
    LET i == FindPeer(self.sync_peers, peer_id)
    IN IF i # 0
       THEN [self EXCEPT !.sync_peers[i].reliability =
                DecMax(DecMul(@, PenaltyFactor), ReliabilityFloor)]
       ELSE self

\* as ReadyCount, popping a front block of any height above current_height
ReadyCountAnyNewer(pending, height) ==
    IF pending # <<>> /\ pending[1].header.height > height THEN 1 ELSE 0

\* How many blocks the while loop pops: the longest prefix of the buffer whose
\* i-th block has height current_height + i.
ReadyCount(pending, height) ==
    CHOOSE n \in 0..Len(pending) :
        /\ \A i \in 1..n : pending[i].header.height = height + i
        /\ (n < Len(pending) => pending[n + 1].header.height # height + n + 1)

\* as process_pending_blocks, completing only once the target is passed
process_pending_blocks_past_target(self) ==
    LET processed == ReadyCount(self.pending_blocks, self.current_height)
        popped == SubSeq(self.pending_blocks, 1, processed)
        height == self.current_height + processed
        after == [self EXCEPT !.pending_blocks = SubSeq(@, processed + 1, Len(@)),
                              !.current_height = height]
    IN [self |-> IF height > self.target_height
                 THEN [after EXCEPT !.sync_mode = Synced]
                 ELSE after,
        applied |-> popped]

process_pending_blocks(self) ==
    LET processed == ReadyCount(self.pending_blocks, self.current_height)
        popped == SubSeq(self.pending_blocks, 1, processed)
        height == self.current_height + processed
        after == [self EXCEPT !.pending_blocks = SubSeq(@, processed + 1, Len(@)),
                              !.current_height = height]
    IN [self |-> IF height >= self.target_height
                 THEN [after EXCEPT !.sync_mode = Synced]
                 ELSE after,
        applied |-> popped]

RECURSIVE Penalize(_, _, _)
Penalize(self, peer_id, times) ==
    IF times = 0 THEN self ELSE Penalize(penalize_peer(self, peer_id), peer_id, times - 1)

\* The for loop over response.blocks: every block that validates is pushed to
\* the back of the buffer in arrival order, every other one penalizes from_peer.
QueueBlocks(self, blocks, from_peer) ==
    LET valid == SelectSeq(blocks, LAMBDA block : validate_block(self, block))
    IN [self |-> [Penalize(self, from_peer, Len(blocks) - Len(valid))
                    EXCEPT !.pending_blocks = @ \o valid],
        blocks_processed |-> Len(valid)]

\* Result<usize, String>, or the panic of &from_peer[..4] on a short slice
Ok(value) == [kind |-> "Ok", value |-> value]

Panic == [kind |-> "panic"]

\* as UpdatePeerPerformance, rewarding the peer whatever was queued
UpdatePeerPerformance_always_rewards(queued, response, from_peer) ==
    LET i == FindPeer(queued.self.sync_peers, from_peer)
    IN IF i = 0 THEN queued.self
       ELSE [queued.self EXCEPT
               !.sync_peers[i].reported_height = response.peer_height,
               !.sync_peers[i].reliability = DecAdd(DecMul(@, RewardFactor), RewardStep)]

\* as UpdatePeerPerformance, taking the answering peer out of the syncing set
UpdatePeerPerformance_clears_mark(queued, response, from_peer) ==
    LET i == FindPeer(queued.self.sync_peers, from_peer)
    IN IF i = 0 THEN queued.self
       ELSE [queued.self EXCEPT
               !.sync_peers[i].reported_height = response.peer_height,
               !.sync_peers[i].is_syncing = FALSE,
               !.sync_peers[i].reliability =
                   IF queued.blocks_processed > 0
                   THEN DecAdd(DecMul(@, RewardFactor), RewardStep)
                   ELSE @]

\* The peer update after the loop: reported_height, and the reward when at
\* least one block was queued.
UpdatePeerPerformance(queued, response, from_peer) ==
    LET i == FindPeer(queued.self.sync_peers, from_peer)
    IN IF i = 0 THEN queued.self
       ELSE [queued.self EXCEPT
               !.sync_peers[i].reported_height = response.peer_height,
               !.sync_peers[i].reliability =
                   IF queued.blocks_processed > 0
                   THEN DecAdd(DecMul(@, RewardFactor), RewardStep)
                   ELSE @]

process_sync_response(self, response, from_peer) ==
    IF Len(from_peer) < PeerIdPrefixLen
    THEN [self |-> self, ret |-> Panic, applied |-> <<>>]
    ELSE Bind(QueueBlocks(self, response.blocks, from_peer), LAMBDA queued :
         Bind(UpdatePeerPerformance(queued, response, from_peer), LAMBDA seen :
         Bind(process_pending_blocks(seen), LAMBDA done :
            [self |-> done.self, ret |-> Ok(queued.blocks_processed),
             applied |-> done.applied])))

PeerScore(peer) == DecMul(peer.sync_speed, peer.reliability)

\* as EligiblePeers, without the reliability test
EligiblePeersAnyReliability(self) ==
    {i \in 1..Len(self.sync_peers) :
        self.sync_peers[i].reported_height > self.current_height}

EligiblePeers(self) ==
    {i \in 1..Len(self.sync_peers) :
        /\ self.sync_peers[i].reported_height > self.current_height
        /\ DecGT(self.sync_peers[i].reliability, EligibleReliability)}

\* Iterator::max_by returns the last of several equally maximal elements.
BestPeer(self) ==
    CHOOSE i \in EligiblePeers(self) :
        \A j \in EligiblePeers(self) :
            /\ ~DecGT(PeerScore(self.sync_peers[j]), PeerScore(self.sync_peers[i]))
            /\ (j > i => DecGT(PeerScore(self.sync_peers[i]), PeerScore(self.sync_peers[j])))

SyncRequest(start_height, end_height, max_blocks) ==
    [start_height |-> start_height, end_height |-> end_height, max_blocks |-> max_blocks]

\* as create_sync_request, with a request for the rest of the chain in place of
\* the early return of the Synced arm
create_sync_request_when_synced(self) ==
    IF EligiblePeers(self) = {} THEN [self |-> self, ret |-> None]
    ELSE LET best == BestPeer(self)
             marked == [self EXCEPT !.sync_peers[best].is_syncing = TRUE]
         IN [self |-> marked,
             ret |-> Some([request |-> SyncRequest(self.current_height + 1,
                                                   self.target_height, BlockSyncMaxBlocks),
                           peer |-> self.sync_peers[best].node_id])]

\* as create_sync_request, asking for the whole missing range in BlockSync
create_sync_request_uncapped(self) ==
    IF EligiblePeers(self) = {} THEN [self |-> self, ret |-> None]
    ELSE LET best == BestPeer(self)
             marked == [self EXCEPT !.sync_peers[best].is_syncing = TRUE]
             mode == self.sync_mode
         IN IF mode.kind = "Synced" THEN [self |-> marked, ret |-> None]
            ELSE [self |-> marked,
                  ret |-> Some([request |->
                      IF mode.kind = "FastSync"
                      THEN SyncRequest(mode.checkpoint_height, self.target_height,
                                       FastSyncMaxBlocks)
                      ELSE IF mode.kind = "FullSync"
                      THEN SyncRequest(mode.start_height,
                                       Min(mode.start_height + FullSyncWindow,
                                           self.target_height),
                                       FullSyncMaxBlocks)
                      ELSE SyncRequest(mode.missing_range[1], mode.missing_range[2],
                                       mode.missing_range[2] - mode.missing_range[1] + 1),
                      peer |-> self.sync_peers[best].node_id])]

create_sync_request(self) ==
    IF EligiblePeers(self) = {} THEN [self |-> self, ret |-> None]
    ELSE LET best == BestPeer(self)
             marked == [self EXCEPT !.sync_peers[best].is_syncing = TRUE]
             mode == self.sync_mode
         IN IF mode.kind = "Synced" THEN [self |-> marked, ret |-> None]
            ELSE [self |-> marked,
                  ret |-> Some([request |->
                      IF mode.kind = "FastSync"
                      THEN SyncRequest(mode.checkpoint_height, self.target_height,
                                       FastSyncMaxBlocks)
                      ELSE IF mode.kind = "FullSync"
                      THEN SyncRequest(mode.start_height,
                                       Min(mode.start_height + FullSyncWindow,
                                           self.target_height),
                                       FullSyncMaxBlocks)
                      ELSE SyncRequest(mode.missing_range[1], mode.missing_range[2],
                                       Min(mode.missing_range[2] - mode.missing_range[1] + 1,
                                           BlockSyncMaxBlocks)),
                      peer |-> self.sync_peers[best].node_id])]

\* as cleanup_inactive_peers, keeping a peer whose reliability is exactly 0.1
cleanup_inactive_peers_keeps_floor(self) ==
    [self EXCEPT !.sync_peers =
        SelectSeq(@, LAMBDA peer : ~DecGT(CleanupReliability, peer.reliability))]

cleanup_inactive_peers(self) ==
    [self EXCEPT !.sync_peers =
        SelectSeq(@, LAMBDA peer : DecGT(peer.reliability, CleanupReliability))]

ActivePeers(self) ==
    {i \in 1..Len(self.sync_peers) :
        /\ self.sync_peers[i].is_syncing
        /\ DecGT(self.sync_peers[i].reliability, EligibleReliability)}

\* sum::<f64>() of the sync_speed of the peers at the given indices
RECURSIVE SumSpeed(_, _)
SumSpeed(peers, indices) ==
    IF indices = {} THEN Dec(0, 0)
    ELSE LET i == CHOOSE i \in indices : \A j \in indices : i <= j
         IN DecAdd(peers[i].sync_speed, SumSpeed(peers, indices \ {i}))

\* as calculate_sync_speed, averaging over every reliable peer, syncing or not
calculate_sync_speed_all_reliable(self) ==
    LET reliable == {i \in 1..Len(self.sync_peers) :
                        DecGT(self.sync_peers[i].reliability, EligibleReliability)}
    IN IF reliable = {} THEN [num |-> 0, den |-> 1]
       ELSE DecDiv(SumSpeed(self.sync_peers, reliable), Cardinality(reliable))

\* the mean as an exact fraction, 0.0 as 0/1
calculate_sync_speed(self) ==
    IF ActivePeers(self) = {} THEN [num |-> 0, den |-> 1]
    ELSE DecDiv(SumSpeed(self.sync_peers, ActivePeers(self)), Cardinality(ActivePeers(self)))

\* progress_percentage and blocks_per_second are exact fractions;
\* "as u64" on the non-negative quotient drops its fractional part.
get_sync_progress(self) ==
    LET blocks_per_second == calculate_sync_speed(self)
        remaining_blocks == SatSub(self.target_height, self.current_height)
    IN [current_height |-> self.current_height,
        target_height |-> self.target_height,
        progress_percentage |->
            IF self.target_height > self.current_height
            THEN Ratio(self.current_height * 100, self.target_height)
            ELSE Ratio(100, 1),
        blocks_per_second |-> blocks_per_second,
        estimated_time_remaining |->
            IF blocks_per_second.num > 0
            THEN (remaining_blocks * blocks_per_second.den) \div blocks_per_second.num
            ELSE 0,
        active_peers |->
            Cardinality({i \in 1..Len(self.sync_peers) : self.sync_peers[i].is_syncing})]

(***************************************************************************)
(* core/consensus/router.rs                                                *)
(***************************************************************************)
EmergencyMode(fallback_validators, security_override) ==
    [kind |-> "EmergencyMode", fallback_validators |-> fallback_validators,
     security_override |-> security_override]

SecureLane(validator_threshold, security_level, decentralization_score) ==
    [kind |-> "SecureLane", validator_threshold |-> validator_threshold,
     security_level |-> security_level,
     decentralization_score |-> decentralization_score]

FastLane(expected_tps, finality_time, validator_count) ==
    [kind |-> "FastLane", expected_tps |-> expected_tps,
     finality_time |-> finality_time, validator_count |-> validator_count]

HybridPath(fast_percentage, secure_percentage, adaptive_threshold) ==
    [kind |-> "HybridPath", fast_percentage |-> fast_percentage,
     secure_percentage |-> secure_percentage,
     adaptive_threshold |-> adaptive_threshold]

NetworkMetricsDefault ==
    [current_tps |-> 1000, network_latency |-> 100, validator_count |-> 100,
     attack_probability |-> Dec(1, 1), congestion_level |-> Dec(3, 1),
     memory_usage |-> Dec(5, 1), cpu_usage |-> Dec(4, 1)]

AIModelNew ==
    [weights |-> [security_weight |-> Dec(3, 1), performance_weight |-> Dec(4, 1),
                  decentralization_weight |-> Dec(3, 1), energy_weight |-> Dec(1, 1),
                  latency_sensitivity |-> Dec(5, 1), attack_response |-> Dec(8, 1)],
     learning_rate |-> Dec(1, 2),
     confidence_threshold |-> Dec(7, 1)]

ConsensusRouterNew == [network_metrics |-> NetworkMetricsDefault, ai_model |-> AIModelNew]

\* as calculate_confidence, without halving the resource headroom
calculate_confidence_unhalved(model, metrics) ==
    LET stability == DecSub(Dec(1, 0), metrics.congestion_level)
        security == DecSub(Dec(1, 0), metrics.attack_probability)
        resources == DecSub(DecSub(Dec(2, 0), metrics.cpu_usage), metrics.memory_usage)
    IN DecDiv(DecAdd(DecAdd(stability, security), resources), 3)

\* as calculate_confidence, with the security term scaled by the adapted weight
calculate_confidence_weighted(model, metrics) ==
    LET stability == DecSub(Dec(1, 0), metrics.congestion_level)
        security == DecMul(DecSub(Dec(1, 0), metrics.attack_probability),
                           model.weights.security_weight)
        resources == DecMul(DecSub(DecSub(Dec(2, 0), metrics.cpu_usage),
                                   metrics.memory_usage),
                            Dec(5, 1))
    IN DecDiv(DecAdd(DecAdd(stability, security), resources), 3)

calculate_confidence(model, metrics) ==
    LET stability == DecSub(Dec(1, 0), metrics.congestion_level)
        security == DecSub(Dec(1, 0), metrics.attack_probability)
        resources == DecMul(DecSub(DecSub(Dec(2, 0), metrics.cpu_usage),
                                   metrics.memory_usage),
                            Dec(5, 1))
    IN DecDiv(DecAdd(DecAdd(stability, security), resources), 3)

\* as adapt_to_conditions, without the caps
adapt_to_conditions_uncapped(model, metrics) ==
    LET attacked == IF DecGT(metrics.attack_probability, Dec(5, 1))
                    THEN [model EXCEPT !.weights.security_weight = DecAdd(@, Dec(1, 1))]
                    ELSE model
    IN IF DecGT(metrics.congestion_level, Dec(7, 1))
       THEN [attacked EXCEPT !.weights.performance_weight = DecAdd(@, Dec(1, 1))]
       ELSE attacked

adapt_to_conditions(model, metrics) ==
    LET attacked == IF DecGT(metrics.attack_probability, Dec(5, 1))
                    THEN [model EXCEPT !.weights.security_weight =
                                           DecMin(DecAdd(@, Dec(1, 1)), Dec(8, 1))]
                    ELSE model
    IN IF DecGT(metrics.congestion_level, Dec(7, 1))
       THEN [attacked EXCEPT !.weights.performance_weight =
                                 DecMin(DecAdd(@, Dec(1, 1)), Dec(9, 1))]
       ELSE attacked

update_metrics(self, metrics) ==
    [self EXCEPT !.network_metrics = metrics,
                 !.ai_model = adapt_to_conditions(@, metrics)]

\* as select_optimal_path, trying the FastLane rule before the SecureLane rule
select_optimal_path_speed_first(self) ==
    LET metrics == self.network_metrics
        confidence == calculate_confidence(self.ai_model, metrics)
    IN IF \/ DecGT(metrics.attack_probability, Dec(8, 1))
          \/ DecGT(metrics.congestion_level, Dec(95, 2))
       THEN EmergencyMode(Max((metrics.validator_count * 3) \div 4,
                              EmergencyMinValidators), TRUE)
       ELSE IF /\ DecGT(metrics.congestion_level, Dec(7, 1))
               /\ DecLT(metrics.attack_probability, Dec(2, 1))
       THEN FastLane(FastLaneTps, FastLaneFinality,
                     Max(metrics.validator_count \div 4, FastLaneMinValidators))
       ELSE IF \/ DecGT(metrics.attack_probability, Dec(4, 1))
               \/ RatioLT(confidence, RatioOfDec(Dec(6, 1)))
       THEN SecureLane((metrics.validator_count * 2) \div 3, Dec(95, 2), Dec(9, 1))
       ELSE HybridPath(DecSub(Dec(7, 1), DecMul(metrics.attack_probability, Dec(5, 1))),
                       DecAdd(Dec(3, 1), DecMul(metrics.attack_probability, Dec(5, 1))),
                       confidence)

select_optimal_path(self) ==
    LET metrics == self.network_metrics
        confidence == calculate_confidence(self.ai_model, metrics)
    IN IF \/ DecGT(metrics.attack_probability, Dec(8, 1))
          \/ DecGT(metrics.congestion_level, Dec(95, 2))
       THEN EmergencyMode(Max((metrics.validator_count * 3) \div 4,
                              EmergencyMinValidators), TRUE)
       ELSE IF \/ DecGT(metrics.attack_probability, Dec(4, 1))
               \/ RatioLT(confidence, RatioOfDec(Dec(6, 1)))
       THEN SecureLane((metrics.validator_count * 2) \div 3, Dec(95, 2), Dec(9, 1))
       ELSE IF /\ DecGT(metrics.congestion_level, Dec(7, 1))
               /\ DecLT(metrics.attack_probability, Dec(2, 1))
       THEN FastLane(FastLaneTps, FastLaneFinality,
                     Max(metrics.validator_count \div 4, FastLaneMinValidators))
       ELSE HybridPath(DecSub(Dec(7, 1), DecMul(metrics.attack_probability, Dec(5, 1))),
                       DecAdd(Dec(3, 1), DecMul(metrics.attack_probability, Dec(5, 1))),
                       confidence)

ai_confidence(self) == calculate_confidence(self.ai_model, self.network_metrics)

PerformancePrediction(throughput, latency, security, decentralization, confidence, energy) ==
    [throughput |-> throughput, latency |-> latency, security_score |-> security,
     decentralization_score |-> decentralization, confidence |-> confidence,
     energy_efficiency |-> energy]

\* (count as f64 / validator_count as f64).min(cap): with no validators the
\* quotient is infinite or NaN, and f64::min then returns the cap
ValidatorShare(count, validator_count, cap) ==
    IF validator_count = 0 THEN RatioOfDec(cap)
    ELSE RatioMin(Ratio(count, validator_count), RatioOfDec(cap))

PredictFastLane(self, validator_count) ==
    PerformancePrediction(
        FastLaneTps, FastLaneFinality,
        RatioAdd(RatioOfDec(Dec(7, 1)),
                 RatioMin(Ratio(validator_count, 100), RatioOfDec(Dec(2, 1)))),
        ValidatorShare(validator_count, self.network_metrics.validator_count, Dec(8, 1)),
        calculate_confidence(self.ai_model, self.network_metrics),
        RatioOfDec(Dec(9, 1)))

PredictSecureLane(self, security_level, decentralization_score) ==
    PerformancePrediction(
        SecureLaneTps, SecureLaneLatency,
        RatioOfDec(security_level), RatioOfDec(decentralization_score),
        RatioOfDec(Dec(95, 2)), RatioOfDec(Dec(6, 1)))

\* fast * fast_percentage + secure * secure_percentage
Blend(fast, fast_percentage, secure, secure_percentage) ==
    RatioAdd(RatioMul(fast, RatioOfDec(fast_percentage)),
             RatioMul(secure, RatioOfDec(secure_percentage)))

predict_performance(self, p) ==
    IF p.kind = "FastLane" THEN PredictFastLane(self, p.validator_count)
    ELSE IF p.kind = "SecureLane"
    THEN PredictSecureLane(self, p.security_level, p.decentralization_score)
    ELSE IF p.kind = "HybridPath"
    THEN LET fast_perf == PredictFastLane(self, HybridFastValidators)
             secure_perf == PredictSecureLane(self, Dec(95, 2), Dec(9, 1))
             mix(f, s) == Blend(f, p.fast_percentage, s, p.secure_percentage)
         IN PerformancePrediction(
                AsU64(mix(Ratio(fast_perf.throughput, 1), Ratio(secure_perf.throughput, 1))),
                AsU64(mix(Ratio(fast_perf.latency, 1), Ratio(secure_perf.latency, 1))),
                mix(fast_perf.security_score, secure_perf.security_score),
                mix(fast_perf.decentralization_score, secure_perf.decentralization_score),
                p.adaptive_threshold,
                mix(fast_perf.energy_efficiency, secure_perf.energy_efficiency))
    ELSE PerformancePrediction(
             EmergencyTps, EmergencyLatency, RatioOfDec(Dec(99, 2)),
             ValidatorShare(p.fallback_validators, self.network_metrics.validator_count,
                            Dec(95, 2)),
             RatioOfDec(Dec(8, 1)), RatioOfDec(Dec(4, 1)))

Router == [network_metrics |-> network_metrics, ai_model |-> ai_model]

InstallRouter(self) ==
    /\ network_metrics' = self.network_metrics
    /\ ai_model' = self.ai_model

RouterInit ==
    /\ network_metrics = ConsensusRouterNew.network_metrics
    /\ ai_model = ConsensusRouterNew.ai_model
    /\ path = None

(***************************************************************************)
(* Inputs                                                                  *)
(***************************************************************************)
InitHeights == {100}

PeerA == <<1, 2, 3, 4>>

PeerB == <<5, 6, 7, 8>>

ShortPeer == <<9>>

PeerHeightChoices == {101, 111, 1101}

SeqsUpTo(S, n) == UNION {[1..m -> S] : m \in 0..n}

\* nothing, one report, two reports of one peer, or two peers
PeerHeightLists ==
    {<<>>}
        \cup {<< <<PeerA, h>> >> : h \in PeerHeightChoices}
        \cup {<< <<PeerA, 111>>, <<PeerA, h>> >> : h \in PeerHeightChoices}
        \cup {<< <<PeerA, h>>, <<PeerB, 1101>> >> : h \in PeerHeightChoices}

Header(version, merkle_root, height) ==
    [version |-> version, previous_hash |-> ZeroHash, merkle_root |-> merkle_root,
     height |-> height]

Signed(from, to, amount, data) ==
    LET unsigned == [from |-> from, to |-> to, amount |-> amount, fee |-> 10, nonce |-> 1,
                     data |-> data]
    IN [from |-> from, to |-> to, amount |-> amount, fee |-> 10, nonce |-> 1, data |-> data,
        signature |-> [key |-> from, message |-> SigningData(unsigned)]]

GoodTx == Signed(<<Byte(1)>>, <<Byte(9)>>, 1000, <<>>)

ForgedTx == [GoodTx EXCEPT !.amount = 2000]

\* create_test_block of the sync tests: version 1, no transactions, zero root
GoodBlock(height) == [header |-> Header(1, ZeroHash, height), transactions |-> <<>>]

\* Block::new over one valid transaction
TxBlock(height) ==
    [header |-> Header(1, BlockCalculateMerkleRoot(<<GoodTx>>), height),
     transactions |-> <<GoodTx>>]

VersionZeroBlock(height) == [header |-> Header(0, ZeroHash, height), transactions |-> <<>>]

BadRootBlock(height) ==
    [header |-> Header(1, ZeroHash, height), transactions |-> <<GoodTx>>]

BadTxBlock(height) ==
    [header |-> Header(1, BlockCalculateMerkleRoot(<<ForgedTx>>), height),
     transactions |-> <<ForgedTx>>]

ResponseBlocks ==
    {GoodBlock(101), GoodBlock(102), VersionZeroBlock(101), BadRootBlock(101),
     BadTxBlock(102)}

ResponsePeerHeights == {1101}

SyncResponse(blocks, peer_height) ==
    [blocks |-> blocks,
     start_height |-> IF blocks = <<>> THEN 0 ELSE blocks[1].header.height,
     is_final |-> FALSE, peer_height |-> peer_height]

Responses ==
    {SyncResponse(blocks, h) : blocks \in SeqsUpTo(ResponseBlocks, MaxRespBlocks),
                               h \in ResponsePeerHeights}

FromPeers == {PeerA, ShortPeer}

BlockInit ==
    /\ candidate = BlockNew(ZeroHash, <<>>, 1)
    /\ candidate_valid = None
    /\ tx_valid = None

(***************************************************************************)
(* The manager as a state machine                                          *)
(***************************************************************************)
Self ==
    [current_height |-> current_height, target_height |-> target_height,
     sync_mode |-> sync_mode, pending_blocks |-> pending_blocks,
     sync_peers |-> sync_peers]

Install(self) ==
    /\ current_height' = self.current_height
    /\ target_height' = self.target_height
    /\ sync_mode' = self.sync_mode
    /\ pending_blocks' = self.pending_blocks
    /\ sync_peers' = self.sync_peers

Heights(blocks) == [i \in 1..Len(blocks) |-> blocks[i].header.height]

WithinBounds(self) ==
    /\ Len(self.pending_blocks) <= MaxPending
    /\ \A i \in 1..Len(self.sync_peers) : self.sync_peers[i].reliability.k <= MaxRelDigits

Init ==
    /\ \E h \in InitHeights :
        LET self == SyncManagerNew(h)
        IN /\ current_height = self.current_height
           /\ target_height = self.target_height
           /\ sync_mode = self.sync_mode
           /\ pending_blocks = self.pending_blocks
           /\ sync_peers = self.sync_peers
    /\ applied = <<>>
    /\ in_flight = None
    /\ progress = None
    /\ tree = MerkleTreeNew(<<>>)
    /\ proof = None
    /\ proof_index = None
    /\ RouterInit
    /\ BlockInit

CheckSyncNeeded ==
    \E peer_heights \in PeerHeightLists :
        /\ Install(check_sync_needed(Self, peer_heights).self)
        /\ UNCHANGED <<applied, in_flight, progress, merkleVars, routerVars, blockVars>>

CreateSyncRequest ==
    /\ \E r \in {create_sync_request(Self)} :
          /\ Install(r.self)
          /\ in_flight' = r.ret
    /\ UNCHANGED <<applied, progress, merkleVars, routerVars, blockVars>>

\* The responses tried for a sender: the call panics on a short from_peer
\* before it reads the response, so one response stands for all of them.
ResponsesFrom(from_peer) ==
    IF Len(from_peer) < PeerIdPrefixLen THEN {SyncResponse(<<>>, 1101)} ELSE Responses

ProcessSyncResponse ==
    \E from_peer \in FromPeers : \E response \in ResponsesFrom(from_peer) :
        \E r \in {process_sync_response(Self, response, from_peer)} :
           /\ WithinBounds(r.self)
           /\ Install(r.self)
           /\ applied' = applied \o Heights(r.applied)
           /\ in_flight' = IF r.ret = Panic THEN in_flight ELSE None
           /\ UNCHANGED <<progress, merkleVars, routerVars, blockVars>>

CleanupInactivePeers ==
    /\ Install(cleanup_inactive_peers(Self))
    /\ UNCHANGED <<applied, in_flight, progress, merkleVars, routerVars, blockVars>>

Next ==
    \/ CheckSyncNeeded
    \/ CreateSyncRequest
    \/ ProcessSyncResponse
    \/ CleanupInactivePeers

Spec == Init /\ [][Next]_vars

(***************************************************************************)
(* The catch-up loop: one check_sync_needed, then create_sync_request and  *)
(* process_sync_response in turn, every request answered by the named peer *)
(* with valid blocks for the heights it asks for.                          *)
(***************************************************************************)
LiveInitHeights == {0, 100}

LiveGaps == {5, 11, 20, 21, 30, 100, 101, 150, 1000, 1001, 1200}

RequestedCount(request) ==
    Min(request.max_blocks, SatSub(request.end_height + 1, request.start_height))

FaithfulResponse(self, request, peer) ==
    [blocks |-> [i \in 1..RequestedCount(request) |->
                    GoodBlock(request.start_height + i - 1)],
     start_height |-> request.start_height,
     is_final |-> request.start_height + RequestedCount(request) > request.end_height,
     peer_height |-> self.sync_peers[FindPeer(self.sync_peers, peer)].reported_height]

WithinLiveBounds(self) ==
    \A i \in 1..Len(self.sync_peers) : self.sync_peers[i].reliability.k <= MaxLiveRelDigits

LiveInit ==
    /\ \E h \in LiveInitHeights :
        LET self == SyncManagerNew(h)
        IN /\ current_height = self.current_height
           /\ target_height = self.target_height
           /\ sync_mode = self.sync_mode
           /\ pending_blocks = self.pending_blocks
           /\ sync_peers = self.sync_peers
    /\ applied = <<>>
    /\ in_flight = None
    /\ progress = None
    /\ tree = MerkleTreeNew(<<>>)
    /\ proof = None
    /\ proof_index = None
    /\ RouterInit
    /\ BlockInit

LiveCheck ==
    /\ sync_peers = <<>>
    /\ \E gap \in LiveGaps :
        Install(check_sync_needed(Self, << <<PeerA, current_height + gap>> >>).self)
    /\ UNCHANGED <<applied, in_flight, progress, merkleVars, routerVars, blockVars>>

LiveRequest ==
    /\ sync_peers # <<>>
    /\ ~in_flight.some
    /\ \E r \in {create_sync_request(Self)} :
          /\ Install(r.self)
          /\ in_flight' = r.ret
    /\ UNCHANGED <<applied, progress, merkleVars, routerVars, blockVars>>

LiveResponse ==
    /\ in_flight.some
    /\ \E r \in {process_sync_response(
                    Self,
                    FaithfulResponse(Self, in_flight.value.request, in_flight.value.peer),
                    in_flight.value.peer)} :
          /\ WithinLiveBounds(r.self)
          /\ Install(r.self)
          /\ applied' = applied \o Heights(r.applied)
    /\ in_flight' = None
    /\ UNCHANGED <<progress, merkleVars, routerVars, blockVars>>

LiveNext == LiveCheck \/ LiveRequest \/ LiveResponse

LiveSpec ==
    /\ LiveInit
    /\ [][LiveNext]_vars
    /\ WF_vars(LiveRequest)
    /\ WF_vars(LiveResponse)

(***************************************************************************)
(* Catching up over a short gap: the peer heights reported leave the node  *)
(* up to MaxRun blocks behind, and responses carry runs of valid blocks    *)
(* that start at, just above or beyond the next height.                    *)
(***************************************************************************)
CatchUpHeights == {105, 111, 112}

Run(start_height, count) == [i \in 1..count |-> GoodBlock(start_height + i - 1)]

CatchUpInit ==
    /\ \E h \in InitHeights :
        LET self == SyncManagerNew(h)
        IN /\ current_height = self.current_height
           /\ target_height = self.target_height
           /\ sync_mode = self.sync_mode
           /\ pending_blocks = self.pending_blocks
           /\ sync_peers = self.sync_peers
    /\ applied = <<>>
    /\ in_flight = None
    /\ progress = None
    /\ tree = MerkleTreeNew(<<>>)
    /\ proof = None
    /\ proof_index = None
    /\ RouterInit
    /\ BlockInit

CatchUpCheck ==
    /\ \E h \in CatchUpHeights :
          Install(check_sync_needed(Self, << <<PeerA, h>> >>).self)
    /\ UNCHANGED <<applied, in_flight, progress, merkleVars, routerVars, blockVars>>

CatchUpRequest ==
    /\ \E r \in {create_sync_request(Self)} :
          /\ Install(r.self)
          /\ in_flight' = r.ret
    /\ UNCHANGED <<applied, progress, merkleVars, routerVars, blockVars>>

CatchUpResponse ==
    /\ \E start_height \in current_height..(current_height + 2), count \in 1..MaxRun :
          \E r \in {process_sync_response(
                        Self, SyncResponse(Run(start_height, count), 112), PeerB)} :
             /\ Len(r.self.pending_blocks) <= MaxStalled
             /\ Len(applied) + Len(r.applied) <= MaxApplied
             /\ Install(r.self)
             /\ applied' = applied \o Heights(r.applied)
    /\ in_flight' = None
    /\ UNCHANGED <<progress, merkleVars, routerVars, blockVars>>

CatchUpCleanup ==
    /\ Install(cleanup_inactive_peers(Self))
    /\ UNCHANGED <<applied, in_flight, progress, merkleVars, routerVars, blockVars>>

CatchUpNext == CatchUpCheck \/ CatchUpRequest \/ CatchUpResponse \/ CatchUpCleanup

CatchUpSpec == CatchUpInit /\ [][CatchUpNext]_vars


(***************************************************************************)
(* Reporting progress while catching up: peers are reported, requests go   *)
(* out, the peer asked answers with blocks from the next height or the one *)
(* after it, and get_sync_progress and cleanup_inactive_peers are called   *)
(* in between.                                                             *)
(***************************************************************************)
ProgressLists ==
    {<< <<PeerA, h>> >> : h \in CatchUpHeights}
        \cup {<< <<PeerA, 111>>, <<PeerB, 1101>> >>}

ProgressCheck ==
    /\ \E peer_heights \in ProgressLists :
          Install(check_sync_needed(Self, peer_heights).self)
    /\ UNCHANGED <<applied, in_flight, progress, merkleVars, routerVars, blockVars>>

ProgressRequest ==
    /\ \E r \in {create_sync_request(Self)} :
          /\ Install(r.self)
          /\ in_flight' = r.ret
    /\ UNCHANGED <<applied, progress, merkleVars, routerVars, blockVars>>

ProgressResponse ==
    /\ in_flight.some
    /\ \E start_height \in {current_height + 1, current_height + 2},
          count \in 1..MaxStalled :
          \E r \in {process_sync_response(
                        Self, SyncResponse(Run(start_height, count), 1101),
                        in_flight.value.peer)} :
             /\ WithinBounds(r.self)
             /\ Len(applied) + Len(r.applied) <= MaxReported
             /\ Install(r.self)
             /\ applied' = applied \o Heights(r.applied)
    /\ in_flight' = None
    /\ UNCHANGED <<progress, merkleVars, routerVars, blockVars>>

GetSyncProgress ==
    /\ progress' = Some(get_sync_progress(Self))
    /\ UNCHANGED <<current_height, target_height, sync_mode, pending_blocks, sync_peers,
                   applied, in_flight, merkleVars, routerVars, blockVars>>

ProgressCleanup ==
    /\ Install(cleanup_inactive_peers(Self))
    /\ UNCHANGED <<applied, in_flight, progress, merkleVars, routerVars, blockVars>>

ProgressNext ==
    \/ ProgressCheck
    \/ ProgressRequest
    \/ ProgressResponse
    \/ GetSyncProgress
    \/ ProgressCleanup

ProgressSpec == Init /\ [][ProgressNext]_vars

(***************************************************************************)
(* Building trees and generating proofs                                    *)
(***************************************************************************)
Items == {<<Byte(1)>>, <<Byte(2)>>}

DataLists == SeqsUpTo(Items, MaxLeaves)

MerkleInit ==
    /\ \E h \in InitHeights :
        LET self == SyncManagerNew(h)
        IN /\ current_height = self.current_height
           /\ target_height = self.target_height
           /\ sync_mode = self.sync_mode
           /\ pending_blocks = self.pending_blocks
           /\ sync_peers = self.sync_peers
    /\ applied = <<>>
    /\ in_flight = None
    /\ progress = None
    /\ \E data \in DataLists : tree = MerkleTreeNew(data)
    /\ proof = None
    /\ proof_index = None
    /\ RouterInit
    /\ BlockInit

GenerateProof ==
    /\ \E index \in 0..Len(tree.leaves) :
          /\ proof' = generate_proof(tree, index)
          /\ proof_index' = Some(index)
    /\ UNCHANGED <<syncVars, tree, routerVars, blockVars>>

MerkleNext == GenerateProof

MerkleSpec == MerkleInit /\ [][MerkleNext]_vars

(***************************************************************************)
(* The router: snapshots arrive through update_metrics and                 *)
(* select_optimal_path is asked for a path in between.                     *)
(***************************************************************************)
Metrics(attack_probability, congestion_level, cpu_usage, memory_usage, validator_count) ==
    [NetworkMetricsDefault EXCEPT
        !.attack_probability = attack_probability,
        !.congestion_level = congestion_level,
        !.cpu_usage = cpu_usage,
        !.memory_usage = memory_usage,
        !.validator_count = validator_count]

\* the snapshots the router is fed
MetricsChoices ==
    {NetworkMetricsDefault,
     [NetworkMetricsDefault EXCEPT !.attack_probability = Dec(9, 1)],
     [NetworkMetricsDefault EXCEPT !.congestion_level = Dec(8, 1)],
     Metrics(Dec(0, 0), Dec(8, 1), Dec(2, 1), Dec(2, 1), 100),
     Metrics(Dec(6, 1), Dec(3, 1), Dec(4, 1), Dec(5, 1), 100),
     Metrics(Dec(5, 1), Dec(7, 1), Dec(4, 1), Dec(5, 1), 100),
     Metrics(Dec(1, 1), Dec(96, 2), Dec(4, 1), Dec(5, 1), 13),
     Metrics(Dec(1, 0), Dec(1, 0), Dec(1, 0), Dec(1, 0), 0)}

\* the snapshots the properties of one call are checked for
MetricsGrid ==
    {Metrics(a, c, u[1], u[2], v) :
        a \in {Dec(0, 0), Dec(1, 1), Dec(19, 2), Dec(2, 1), Dec(4, 1), Dec(41, 2),
               Dec(5, 1), Dec(51, 2), Dec(8, 1), Dec(81, 2), Dec(1, 0)},
        c \in {Dec(0, 0), Dec(3, 1), Dec(7, 1), Dec(71, 2), Dec(95, 2), Dec(96, 2),
               Dec(1, 0)},
        u \in {<<Dec(0, 0), Dec(0, 0)>>, <<Dec(4, 1), Dec(5, 1)>>,
               <<Dec(1, 0), Dec(6, 1)>>, <<Dec(1, 0), Dec(1, 0)>>},
        v \in {0, 13, 100}}

UpdateMetrics ==
    /\ \E metrics \in MetricsChoices : InstallRouter(update_metrics(Router, metrics))
    /\ UNCHANGED <<syncVars, merkleVars, path, blockVars>>

SelectOptimalPath ==
    /\ path' = Some(select_optimal_path(Router))
    /\ UNCHANGED <<syncVars, merkleVars, network_metrics, ai_model, blockVars>>

RouterNext == UpdateMetrics \/ SelectOptimalPath

RouterSpec == Init /\ [][RouterNext]_vars

(***************************************************************************)
(* Blocks arriving from the network: each starts as Block::new over a list *)
(* of transactions; its public header fields may then be overwritten by    *)
(* whoever relays it, and Block::validate and Transaction::validate are    *)
(* asked about it.                                                         *)
(***************************************************************************)
\* amount 0 carrying a payload, signed
DataTx == Signed(<<Byte(1)>>, <<Byte(9)>>, 0, <<Byte(7)>>)

\* amount 0 and no payload, signed
EmptyTransferTx == Signed(<<Byte(1)>>, <<Byte(9)>>, 0, <<>>)

\* no recipient, signed
NoRecipientTx == Signed(<<Byte(1)>>, <<>>, 1000, <<>>)

\* the sender cut out of a signed transaction
NoSenderTx == [GoodTx EXCEPT !.from = <<>>]

\* signed by another key than the sender's
WrongKeyTx == [GoodTx EXCEPT !.signature.key = <<Byte(2)>>]

\* bytes that are no signature at all
MalformedSigTx == [GoodTx EXCEPT !.signature = [key |-> <<>>, message |-> <<>>]]

TxChoices ==
    {GoodTx, DataTx, ForgedTx, EmptyTransferTx, NoRecipientTx, NoSenderTx, WrongKeyTx,
     MalformedSigTx}

TxLists == SeqsUpTo(TxChoices, MaxTxs)

AlteredRoots == {ZeroHash, BlockCalculateMerkleRoot(<<GoodTx>>), Sha3(<<Byte(0)>>)}

BlockSpecInit ==
    /\ \E h \in InitHeights :
        LET self == SyncManagerNew(h)
        IN /\ current_height = self.current_height
           /\ target_height = self.target_height
           /\ sync_mode = self.sync_mode
           /\ pending_blocks = self.pending_blocks
           /\ sync_peers = self.sync_peers
    /\ applied = <<>>
    /\ in_flight = None
    /\ progress = None
    /\ tree = MerkleTreeNew(<<>>)
    /\ proof = None
    /\ proof_index = None
    /\ RouterInit
    /\ \E transactions \in TxLists : candidate = BlockNew(ZeroHash, transactions, 1)
    /\ candidate_valid = None
    /\ tx_valid = None

AlterMerkleRoot ==
    /\ \E root \in AlteredRoots \ {candidate.header.merkle_root} :
          candidate' = [candidate EXCEPT !.header.merkle_root = root]
    /\ candidate_valid' = None
    /\ tx_valid' = None
    /\ UNCHANGED <<syncVars, merkleVars, routerVars>>

AlterVersion ==
    /\ \E version \in {0, 1} \ {candidate.header.version} :
          candidate' = [candidate EXCEPT !.header.version = version]
    /\ candidate_valid' = None
    /\ tx_valid' = None
    /\ UNCHANGED <<syncVars, merkleVars, routerVars>>

ValidateBlock ==
    /\ candidate_valid' = Some(BlockValidate(candidate))
    /\ UNCHANGED <<syncVars, merkleVars, routerVars, candidate, tx_valid>>

ValidateTransaction ==
    /\ \E i \in 1..Len(candidate.transactions) :
          tx_valid' = Some([index |-> i,
                            valid |-> TransactionValidate(candidate.transactions[i])])
    /\ UNCHANGED <<syncVars, merkleVars, routerVars, candidate, candidate_valid>>

BlockNext == AlterMerkleRoot \/ AlterVersion \/ ValidateBlock \/ ValidateTransaction

BlockSpec == BlockSpecInit /\ [][BlockNext]_vars

(***************************************************************************)
(* Claims                                                                  *)
(***************************************************************************)

C2_GeneratedProofVerifies == proof.some => verify_proof(proof.value)

ValidBlocks(blocks) == SelectSeq(blocks, BlockValidate)

KnownSenders == {p \in FromPeers : Len(p) >= PeerIdPrefixLen /\ FindPeer(sync_peers, p) # 0}

\* C3: a block of a response that fails Block.validate() is dropped: the
\* buffer, the blocks applied and current_height after the call are those of
\* the same response without its invalid blocks.
C3_InvalidBlocksDropped ==
    \A response \in Responses, from_peer \in {PeerA} :
        LET got == process_sync_response(Self, response, from_peer)
            clean == process_sync_response(
                         Self, [response EXCEPT !.blocks = ValidBlocks(@)], from_peer)
        IN /\ got.self.pending_blocks = clean.self.pending_blocks
           /\ got.applied = clean.applied
           /\ got.self.current_height = clean.self.current_height

\* C4: a response holding one block, which is invalid, from a known peer
\* leaves that peer at reliability max(0.1, 0.5 * old).
C4_InvalidBlockHalvesReliability ==
    \A response \in Responses, from_peer \in KnownSenders :
        (Len(response.blocks) = 1 /\ ValidBlocks(response.blocks) = <<>>)
            => LET i == FindPeer(sync_peers, from_peer)
                   got == process_sync_response(Self, response, from_peer)
               IN got.self.sync_peers[i].reliability
                      = DecMax(DecMul(sync_peers[i].reliability, Dec(5, 1)), Dec(1, 1))

RECURSIVE Pow2(_)
Pow2(n) == IF n = 0 THEN 1 ELSE 2 * Pow2(n - 1)

\* halvings that take any reliability up to 1 down to the floor 0.1
SufficientPenalties == CHOOSE n \in 1..8 : Pow2(n) >= 10 /\ Pow2(n - 1) < 10

RECURSIVE Respond(_, _, _, _)
Respond(self, response, from_peer, times) ==
    IF times = 0 THEN self
    ELSE Respond(process_sync_response(self, response, from_peer).self, response,
                 from_peer, times - 1)

\* C5: after enough responses from a known peer that hold an invalid block
\* each, cleanup_inactive_peers removes the peer and create_sync_request no
\* longer names it.
C5_RepeatOffenderRemoved ==
    \A from_peer \in KnownSenders :
        LET bad == SyncResponse(<<VersionZeroBlock(101)>>, 1101)
            after == cleanup_inactive_peers(
                         Respond(Self, bad, from_peer, SufficientPenalties))
            request == create_sync_request(after).ret
        IN /\ FindPeer(after.sync_peers, from_peer) = 0
           /\ request.some => request.value.peer # from_peer

StalledFrontStays ==
    [][(pending_blocks # <<>> /\ pending_blocks[1].header.height # current_height + 1)
          => /\ current_height' = current_height
             /\ pending_blocks' # <<>>
             /\ pending_blocks'[1] = pending_blocks[1]]_vars

\* C7: when a valid block at a height h above current_height + 1 is buffered
\* and a response delivers valid blocks for every height from
\* current_height + 1 to h - 1, current_height reaches at least h.
C7_FilledGapIsApplied ==
    \A response \in Responses, j \in 1..Len(pending_blocks) :
        LET h == pending_blocks[j].header.height
            delivered == {b.header.height : b \in {ValidBlocks(response.blocks)[i] :
                                i \in 1..Len(ValidBlocks(response.blocks))}}
        IN (/\ BlockValidate(pending_blocks[j])
            /\ h > current_height + 1
            /\ \A k \in (current_height + 1)..(h - 1) : k \in delivered)
            => process_sync_response(Self, response, PeerA).self.current_height >= h

NonEmptyLists == PeerHeightLists \ {<<>>}

\* C8: with a non-empty peer list whose maximum M exceeds current_height by
\* g > 10, check_sync_needed returns true, sets target_height to M and picks
\* FastSync{M - 100} for g > 1000, FullSync{current_height + 1} for
\* 100 < g <= 1000 and BlockSync{(current_height + 1, M)} for 10 < g <= 100.
C8_ModeFollowsGap ==
    \A peer_heights \in NonEmptyLists :
        LET M == MaxHeight(peer_heights)
            g == M - current_height
            r == check_sync_needed(Self, peer_heights)
        IN g > 10
            => /\ r.ret = TRUE
               /\ r.self.target_height = M
               /\ r.self.current_height = current_height
               /\ g > 1000 => r.self.sync_mode = FastSync(M - 100)
               /\ (100 < g /\ g <= 1000) => r.self.sync_mode = FullSync(current_height + 1)
               /\ g <= 100 => r.self.sync_mode = BlockSync(current_height + 1, M)

\* a gap of exactly 1000 was given FullSync
C8_Witness ==
    /\ current_height = 101
    /\ target_height = 1101
    /\ sync_mode = FullSync(102)

\* C9: with a non-empty peer list whose maximum exceeds current_height by at
\* most 10, or does not exceed it, check_sync_needed returns false and the
\* mode is Synced afterwards.
C9_SmallGapIsSynced ==
    \A peer_heights \in NonEmptyLists :
        LET r == check_sync_needed(Self, peer_heights)
        IN MaxHeight(peer_heights) - current_height <= 10
            => r.ret = FALSE /\ r.self.sync_mode = Synced

\* a sync towards 1101 was superseded by a report of a small gap
C9_Witness ==
    /\ sync_mode = Synced
    /\ target_height = 1101
    /\ current_height < target_height
    /\ sync_peers # <<>>
    /\ sync_peers[1].reported_height - current_height <= 10

\* C10: calling check_sync_needed a second time with the same list returns
\* the same value and leaves the manager as the first call left it.
C10_CheckIsIdempotent ==
    \A peer_heights \in PeerHeightLists :
        LET once == check_sync_needed(Self, peer_heights)
        IN check_sync_needed(once.self, peer_heights) = once

\* two peers are known and a sync is under way with blocks buffered
C10_Witness ==
    /\ Len(sync_peers) = 2
    /\ sync_mode.kind = "FullSync"
    /\ pending_blocks # <<>>

\* C11: after check_sync_needed the mode and target_height are those a
\* manager freshly built at the same current_height gets from the same list:
\* they do not depend on the mode or target in effect before the call.
C11_RecomputedFromScratch ==
    \A peer_heights \in NonEmptyLists :
        LET mine == check_sync_needed(Self, peer_heights).self
            fresh == check_sync_needed(SyncManagerNew(current_height), peer_heights).self
        IN /\ mine.sync_mode = fresh.sync_mode
           /\ mine.target_height = fresh.target_height

\* The manager as it is, and as it would be with one of its peers penalized
\* up to MaxPenalties times.
PenalizedManagers ==
    {Penalize(Self, peer_id, times) : peer_id \in {PeerA, PeerB}, times \in 0..MaxPenalties}

\* C12: a request names a peer whose reported_height is above current_height
\* and whose reliability is above 0.5, no such peer has a greater
\* sync_speed * reliability, and the named peer is marked syncing afterwards.
C12_RequestNamesBestEligiblePeer ==
    \A self \in PenalizedManagers :
        LET r == create_sync_request(self)
            peers == self.sync_peers
            Fit(i) == /\ peers[i].reported_height > self.current_height
                      /\ DecGT(peers[i].reliability, Dec(5, 1))
        IN r.ret.some =>
            \E i \in 1..Len(peers) :
                /\ peers[i].node_id = r.ret.value.peer
                /\ \A j \in 1..Len(peers) :
                      peers[j].node_id = r.ret.value.peer => j = i
                /\ Fit(i)
                /\ \A j \in 1..Len(peers) :
                      Fit(j) => ~DecGT(DecMul(peers[j].sync_speed, peers[j].reliability),
                                       DecMul(peers[i].sync_speed, peers[i].reliability))
                /\ r.self.sync_peers[i].is_syncing

\* a request is out to the better of two eligible peers
C12_Witness ==
    /\ in_flight.some
    /\ in_flight.value.peer = PeerA
    /\ Len(sync_peers) = 2
    /\ \A i \in 1..2 : /\ sync_peers[i].reported_height > current_height
                       /\ DecGT(sync_peers[i].reliability, Dec(5, 1))
    /\ DecGT(sync_peers[1].reliability, sync_peers[2].reliability)
    /\ sync_peers[1].is_syncing

\* C13: create_sync_request returns no request exactly when the mode is
\* Synced or no peer has reported_height above current_height together with
\* reliability above 0.5.
C13_NoRequestIffSyncedOrNoPeer ==
    \A self \in PenalizedManagers :
        LET peers == self.sync_peers
            NoPeer == ~\E i \in 1..Len(peers) :
                          /\ peers[i].reported_height > self.current_height
                          /\ DecGT(peers[i].reliability, Dec(5, 1))
        IN (create_sync_request(self).ret = None) <=> (self.sync_mode = Synced \/ NoPeer)

\* a request was refused in Synced mode although a peer is eligible
C13_Witness ==
    /\ sync_mode = Synced
    /\ in_flight = None
    /\ \E i \in 1..Len(sync_peers) :
          /\ sync_peers[i].is_syncing
          /\ sync_peers[i].reported_height > current_height

\* C14: with an empty buffer, a response of k valid blocks at the heights
\* current_height + 1 .. current_height + k returns k and advances
\* current_height by k; the mode is Synced afterwards if the new height has
\* reached target_height and is unchanged otherwise.
C14_ContiguousRunIsApplied ==
    \A k \in 0..MaxRun, from_peer \in {PeerA, PeerB} :
        pending_blocks = <<>> =>
            LET response == SyncResponse(Run(current_height + 1, k), 112)
                r == process_sync_response(Self, response, from_peer)
            IN /\ r.ret = Ok(k)
               /\ r.self.current_height = current_height + k
               /\ Heights(r.applied) = [i \in 1..k |-> current_height + i]
               /\ r.self.pending_blocks = <<>>
               /\ r.self.sync_mode = IF current_height + k >= target_height
                                     THEN Synced ELSE sync_mode

\* eleven blocks arrived in one response and completed a BlockSync
C14_Witness ==
    /\ applied = [i \in 1..11 |-> 100 + i]
    /\ target_height = 111
    /\ current_height = 111
    /\ sync_mode = Synced
    /\ pending_blocks = <<>>

\* C15: a response whose valid blocks all lie above current_height + 1
\* leaves current_height unchanged, applies nothing and leaves those blocks
\* in the pending buffer.
C15_BlockBeyondGapIsBuffered ==
    \A gap \in 1..MaxRun, count \in 1..2, from_peer \in {PeerA, PeerB} :
        LET blocks == Run(current_height + 1 + gap, count)
            r == process_sync_response(Self, SyncResponse(blocks, 112), from_peer)
        IN /\ r.self.current_height = current_height
           /\ r.applied = <<>>
           /\ r.self.pending_blocks = pending_blocks \o blocks

\* a block two heights ahead is waiting in the buffer
C15_Witness ==
    /\ pending_blocks # <<>>
    /\ pending_blocks[1].header.height > current_height + 1
    /\ current_height > 100

\* C16: in every reachable state current_height >= target_height implies
\* that the mode is Synced.
C16_TargetReachedIsSynced == current_height >= target_height => sync_mode = Synced

\* the target set by check_sync_needed has been reached and passed
C16_Witness ==
    /\ target_height = 112
    /\ current_height > target_height
    /\ Len(applied) > 12

\* a decimal of at most two places, in hundredths
Hundredths(d) == d.n * Pow10(2 - d.k)

\* six hundred times the average of 1 - congestion_level, 1 - attack_probability
\* and (2 - cpu_usage - memory_usage) / 2
SixHundredfoldAverage(metrics) ==
    2 * (100 - Hundredths(metrics.congestion_level))
        + 2 * (100 - Hundredths(metrics.attack_probability))
        + (200 - Hundredths(metrics.cpu_usage) - Hundredths(metrics.memory_usage))

\* C17: select_optimal_path returns the path of the first rule that matches,
\* in the order EmergencyMode (attack_probability > 0.8 or congestion_level >
\* 0.95), SecureLane (attack_probability > 0.4 or confidence < 0.6), FastLane
\* (congestion_level > 0.7 and attack_probability < 0.2), HybridPath; an
\* attack_probability of 0.9 on the defaults gives EmergencyMode and the
\* defaults give HybridPath.
C17_FirstMatchingRuleWins ==
    /\ \A metrics \in MetricsGrid :
        LET got == select_optimal_path(update_metrics(Router, metrics))
            attack == Hundredths(metrics.attack_probability)
            congestion == Hundredths(metrics.congestion_level)
            count == metrics.validator_count
        IN IF attack > 80 \/ congestion > 95
           THEN got = EmergencyMode(Max((count * 3) \div 4, 10), TRUE)
           ELSE IF attack > 40 \/ SixHundredfoldAverage(metrics) < 360
           THEN got.kind = "SecureLane" /\ got.validator_threshold = (count * 2) \div 3
           ELSE IF congestion > 70 /\ attack < 20
           THEN got.kind = "FastLane" /\ got.validator_count = Max(count \div 4, 21)
           ELSE got.kind = "HybridPath"
    /\ select_optimal_path(
           update_metrics(Router, [NetworkMetricsDefault EXCEPT
                                      !.attack_probability = Dec(9, 1)])).kind
         = "EmergencyMode"
    /\ select_optimal_path(update_metrics(Router, NetworkMetricsDefault)).kind
         = "HybridPath"

\* FastLane was chosen for a congested, quiet network with idle resources
C17_Witness ==
    /\ path.some
    /\ path.value.kind = "FastLane"
    /\ network_metrics.congestion_level = Dec(8, 1)
    /\ network_metrics.cpu_usage = Dec(2, 1)

\* C18: after update_metrics with congestion_level 0.8 and attack_probability
\* 0.1 on the default metrics, select_optimal_path returns FastLane.
C18_CongestedDefaultsGiveFastLane ==
    select_optimal_path(
        update_metrics(Router, [NetworkMetricsDefault EXCEPT
                                   !.congestion_level = Dec(8, 1),
                                   !.attack_probability = Dec(1, 1)])).kind
      = "FastLane"

\* C18 as the code has it: for congestion_level 0.8 and attack_probability
\* 0.1 on the default metrics the confidence is 0.55, below 0.6, so the
\* SecureLane rule matches before the FastLane rule is tried.
C18_CongestedDefaultsGiveSecureLane ==
    LET self == update_metrics(Router, [NetworkMetricsDefault EXCEPT
                                           !.congestion_level = Dec(8, 1),
                                           !.attack_probability = Dec(1, 1)])
    IN /\ ai_confidence(self) = Ratio(55, 100)
       /\ select_optimal_path(self) = SecureLane(66, Dec(95, 2), Dec(9, 1))

\* SecureLane came back for the congested default snapshot
C18_Witness ==
    /\ path.some
    /\ path.value.kind = "SecureLane"
    /\ network_metrics = [NetworkMetricsDefault EXCEPT !.congestion_level = Dec(8, 1)]

\* C19: for metrics in [0,1] the confidence is the average of
\* 1 - congestion_level, 1 - attack_probability and
\* (2 - cpu_usage - memory_usage) / 2, and lies in [0,1].
C19_ConfidenceIsAverageInUnitRange ==
    \A metrics \in MetricsGrid :
        LET confidence == ai_confidence(update_metrics(Router, metrics))
        IN /\ confidence.num * 600 = SixHundredfoldAverage(metrics) * confidence.den
           /\ confidence.den > 0
           /\ 0 <= confidence.num
           /\ confidence.num <= confidence.den

\* the confidence of the default metrics, 43/60, came back with a HybridPath
C19_Witness ==
    /\ path.some
    /\ path.value.kind = "HybridPath"
    /\ path.value.adaptive_threshold = Ratio(43, 60)
    /\ network_metrics = NetworkMetricsDefault

\* C20: update_metrics raises the security weight to min(0.8, old + 0.1) when
\* attack_probability > 0.5 and the performance weight to min(0.9, old + 0.1)
\* when congestion_level > 0.7, and leaves them alone otherwise; the security
\* weight stays within [0.3, 0.8], the performance weight within [0.4, 0.9],
\* and neither decreases.
C20_WeightsStepUpToCaps ==
    LET security == Hundredths(ai_model.weights.security_weight)
        performance == Hundredths(ai_model.weights.performance_weight)
    IN /\ 30 <= security /\ security <= 80
       /\ 40 <= performance /\ performance <= 90
       /\ \A metrics \in MetricsGrid :
            LET after == update_metrics(Router, metrics).ai_model.weights
            IN /\ Hundredths(after.security_weight)
                    = IF Hundredths(metrics.attack_probability) > 50
                      THEN Min(80, security + 10) ELSE security
               /\ Hundredths(after.performance_weight)
                    = IF Hundredths(metrics.congestion_level) > 70
                      THEN Min(90, performance + 10) ELSE performance
               /\ Hundredths(after.security_weight) >= security
               /\ Hundredths(after.performance_weight) >= performance

\* both weights have climbed to their caps
C20_Witness ==
    /\ ai_model.weights.security_weight = Dec(8, 1)
    /\ ai_model.weights.performance_weight = Dec(9, 1)
    /\ network_metrics.attack_probability = Dec(1, 0)

\* the signature of tx is one its sender made over the encoding of
\* (from, to, amount, fee, nonce, data)
SignedBySender(tx) ==
    /\ tx.signature.key = tx.from
    /\ tx.signature.message
         = <<U64(Len(tx.from))>> \o tx.from \o <<U64(Len(tx.to))>> \o tx.to
              \o <<U64(tx.amount), U64(tx.fee), U64(tx.nonce)>>
              \o <<U64(Len(tx.data))>> \o tx.data

\* what Transaction.validate() is to accept
Acceptable(tx) ==
    /\ tx.from # <<>>
    /\ tx.to # <<>>
    /\ ~(tx.amount = 0 /\ tx.data = <<>>)
    /\ SignedBySender(tx)

\* C21: Block.validate() returns true exactly when the version is not 0, the
\* header's merkle_root is the root recomputed from the transactions and every
\* transaction validates; a block of Block::new fails once its merkle_root is
\* altered, and a block with one transaction whose signature is invalid fails.
C21_BlockValidateContract ==
    candidate_valid.some =>
        LET txs == candidate.transactions
            built == BlockNew(candidate.header.previous_hash, txs, candidate.header.height)
            InvalidSignature == {i \in 1..Len(txs) : ~SignedBySender(txs[i])}
        IN /\ candidate_valid.value
                = (/\ candidate.header.version # 0
                   /\ candidate.header.merkle_root = built.header.merkle_root
                   /\ \A i \in 1..Len(txs) : Acceptable(txs[i]))
           /\ candidate.header.merkle_root # built.header.merkle_root
                => candidate_valid.value = FALSE
           /\ Cardinality(InvalidSignature) = 1 => candidate_valid.value = FALSE

\* a block of two valid transactions was refused for its altered merkle_root
C21_Witness ==
    /\ candidate_valid = Some(FALSE)
    /\ candidate.header.version = 1
    /\ candidate.transactions = <<GoodTx, DataTx>>
    /\ candidate.header.merkle_root = ZeroHash

\* C22: Transaction.validate() returns false when the sender is empty, when
\* the recipient is empty, when amount is 0 with an empty payload, or when the
\* signature does not verify against the sender over the encoding of (from,
\* to, amount, fee, nonce, data); it returns true when none of these holds,
\* and it always returns.
C22_TransactionValidateContract ==
    tx_valid.some =>
        LET tx == candidate.transactions[tx_valid.value.index]
            valid == tx_valid.value.valid
        IN /\ valid \in BOOLEAN
           /\ tx.from = <<>> => valid = FALSE
           /\ tx.to = <<>> => valid = FALSE
           /\ (tx.amount = 0 /\ tx.data = <<>>) => valid = FALSE
           /\ ~SignedBySender(tx) => valid = FALSE
           /\ Acceptable(tx) => valid = TRUE

\* a correctly signed transfer of nothing was refused
C22_Witness ==
    /\ tx_valid.some
    /\ tx_valid.value.valid = FALSE
    /\ candidate.transactions[tx_valid.value.index] = EmptyTransferTx
    /\ SignedBySender(EmptyTransferTx)

\* what a block at the next height may carry as previous_hash: nothing, the
\* hash of the block applied last, or the hash of some other block
PreviousHashes == {ZeroHash, BlockHash(GoodBlock(current_height)), Sha3(<<Byte(0)>>)}

\* C23: a block at height current_height + 1 delivered to
\* process_sync_response is applied and advances current_height whatever its
\* previous_hash is, also when that is not the hash of the block applied at
\* current_height.
C23_NoLinkageCheck ==
    \A previous_hash \in PreviousHashes, from_peer \in {PeerA, PeerB} :
        pending_blocks = <<>> =>
            LET next == [GoodBlock(current_height + 1) EXCEPT
                            !.header.previous_hash = previous_hash]
                r == process_sync_response(Self, SyncResponse(<<next>>, 112), from_peer)
            IN /\ r.ret = Ok(1)
               /\ r.applied = <<next>>
               /\ r.self.current_height = current_height + 1
               /\ r.self.pending_blocks = <<>>

\* block 102 was applied on top of block 101 although its previous_hash is
\* not the hash of block 101
C23_Witness ==
    /\ applied = <<101, 102>>
    /\ current_height = 102
    /\ GoodBlock(102).header.previous_hash # BlockHash(GoodBlock(101))

\* peer identities of every kind: known or not, of four bytes, shorter, empty
AnyPeers == FromPeers \cup {PeerB, <<>>, <<1, 2, 3>>}

\* C24: for every response and every peer identity of any length, known or
\* not, process_sync_response returns a result and does not panic.
C24_NoPanicEscapes ==
    \A response \in Responses, from_peer \in AnyPeers :
        process_sync_response(Self, response, from_peer).ret.kind = "Ok"

\* C25: a MerkleTree built from the empty list has the all-zero root and no
\* leaves, and generate_proof returns none for every index at or past the
\* number of leaves, so for every index on an empty tree.
C25_EmptyTreeAndOutOfRange ==
    /\ MerkleTreeNew(<<>>) = [root |-> ZeroHash, leaves |-> <<>>]
    /\ (proof_index.some /\ proof_index.value >= Len(tree.leaves)) => proof = None
    /\ \A index \in Len(tree.leaves)..(Len(tree.leaves) + MaxLeaves) :
          generate_proof(tree, index) = None
    /\ tree.leaves = <<>> =>
          /\ tree.root = ZeroHash
          /\ \A index \in 0..MaxLeaves : generate_proof(tree, index) = None

\* the empty tree was asked for the proof of index 0 and gave none
C25_Witness ==
    /\ tree = MerkleTreeNew(<<>>)
    /\ proof_index = Some(0)
    /\ proof = None

\* C26: replacing one transaction of a non-empty list by a different one, at
\* the same position, changes the Merkle root, for every length and position:
\* different transactions have different leaf hashes, and a list of leaf
\* hashes that differs in one place reduces to a different root, in
\* MerkleTree as in Block.
C26_ReplacementChangesRoot ==
    /\ \A tx \in TxChoices : \A other \in TxChoices \ {tx} :
          Sha3(TxBytes(tx)) # Sha3(TxBytes(other))
    /\ \A item \in Items : \A other \in Items \ {item} :
          MerkleTreeNew(<<item>>).leaves # MerkleTreeNew(<<other>>).leaves
    /\ \A i \in 1..Len(tree.leaves), item \in Items :
          LET replaced == [tree.leaves EXCEPT ![i] = MerkleTreeNew(<<item>>).leaves[1]]
          IN replaced # tree.leaves
                => /\ calculate_root(replaced) # tree.root
                   /\ ReduceLevels(replaced) # ReduceLevels(tree.leaves)

\* a tree of seven leaves, the odd one at the end unlike its neighbour
C26_Witness ==
    /\ Len(tree.leaves) = 7
    /\ tree.leaves[7] # tree.leaves[6]
    /\ tree.root = ReduceLevels(tree.leaves)
    /\ proof_index = Some(6)

\* The manager as it is, and as it would be after up to SufficientPenalties
\* penalties for each of the two peers.
OftenPenalizedManagers ==
    {Penalize(Penalize(Self, PeerA, a), PeerB, b) :
        a \in 0..SufficientPenalties, b \in 0..SufficientPenalties}

\* C27: cleanup_inactive_peers removes exactly the peers whose reliability is
\* at most 0.1, keeps every other peer unchanged and in order, and leaves
\* mode, current_height, target_height and the pending buffer unchanged.
C27_CleanupRemovesUnreliableOnly ==
    \A self \in OftenPenalizedManagers :
        LET after == cleanup_inactive_peers(self)
            peers == self.sync_peers
            kept == {i \in 1..Len(peers) :
                        peers[i].reliability.n * 10 > Pow10(peers[i].reliability.k)}
        IN /\ Len(after.sync_peers) = Cardinality(kept)
           /\ \A i \in kept :
                 after.sync_peers[Cardinality({j \in kept : j <= i})] = peers[i]
           /\ after.sync_mode = self.sync_mode
           /\ after.current_height = self.current_height
           /\ after.target_height = self.target_height
           /\ after.pending_blocks = self.pending_blocks

\* two peers are known, one of them rewarded, a block is waiting behind a gap
\* and a FastSync is under way: cleanup has peers to keep and a frame to
\* leave alone
C27_Witness ==
    /\ Len(sync_peers) = 2
    /\ sync_mode.kind = "FastSync"
    /\ pending_blocks # <<>>
    /\ \E i \in 1..2 : /\ sync_peers[i].is_syncing
                       /\ sync_peers[i].reliability = Dec(82, 2)

\* the sync_speed of the peers at the given indices, summed, in hundredths
RECURSIVE SpeedHundredths(_, _)
SpeedHundredths(peers, indices) ==
    IF indices = {} THEN 0
    ELSE LET i == CHOOSE i \in indices : TRUE
         IN Hundredths(peers[i].sync_speed) + SpeedHundredths(peers, indices \ {i})

\* what C28 and its amended form share: the percentage is 100 when
\* target_height <= current_height and current_height / target_height * 100
\* otherwise; blocks_per_second is the mean sync_speed of the peers marked
\* syncing with reliability above 0.5, 0 when there is none.
PercentageAndSpeedAsSpecified(self, report) ==
    LET peers == self.sync_peers
        counted == {i \in 1..Len(peers) :
                       /\ peers[i].is_syncing
                       /\ peers[i].reliability.n * 10 > 5 * Pow10(peers[i].reliability.k)}
        percentage == report.progress_percentage
        speed == report.blocks_per_second
    IN /\ percentage.den > 0 /\ speed.den > 0
       /\ IF self.target_height <= self.current_height
          THEN percentage.num = 100 * percentage.den
          ELSE percentage.num * self.target_height
                  = self.current_height * 100 * percentage.den
       /\ IF counted = {} THEN speed.num = 0
          ELSE speed.num * 100 * Cardinality(counted)
                  = SpeedHundredths(peers, counted) * speed.den

\* C28: get_sync_progress reports the percentage and the speed as specified,
\* and estimated_time_remaining = (target_height - current_height) /
\* blocks_per_second, 0 when blocks_per_second is 0.
C28_ProgressAsSpecified ==
    \A self \in PenalizedManagers :
        LET report == get_sync_progress(self)
            speed == report.blocks_per_second
        IN /\ PercentageAndSpeedAsSpecified(self, report)
           /\ IF speed.num = 0 THEN report.estimated_time_remaining = 0
              ELSE report.estimated_time_remaining * speed.num
                      = (self.target_height - self.current_height) * speed.den

\* C28 as the code has it: estimated_time_remaining is the whole number of
\* seconds in max(0, target_height - current_height) / blocks_per_second, the
\* fraction of a second dropped, and 0 when blocks_per_second is 0; the rest
\* is as specified, and the call leaves the manager as it was.
C28_ProgressWithWholeSeconds ==
    /\ [](\A self \in PenalizedManagers :
            LET report == get_sync_progress(self)
                speed == report.blocks_per_second
                eta == report.estimated_time_remaining
                remaining == Max(0, self.target_height - self.current_height)
            IN /\ PercentageAndSpeedAsSpecified(self, report)
               /\ IF speed.num = 0 THEN eta = 0
                  ELSE /\ eta * speed.num <= remaining * speed.den
                       /\ remaining * speed.den < (eta + 1) * speed.num)
    /\ [][progress' # progress
            => UNCHANGED <<current_height, target_height, sync_mode, pending_blocks,
                           sync_peers>>]_vars

\* eleven blocks behind a peer delivering 10 blocks per second: 1 second
C28_Witness ==
    /\ progress.some
    /\ progress.value.target_height - progress.value.current_height = 11
    /\ progress.value.blocks_per_second = Ratio(10, 1)
    /\ progress.value.estimated_time_remaining = 1
    /\ progress.value.progress_percentage = Ratio(10000, 111)

\* the request the mode calls for
SizedByMode(mode, target, request) ==
    /\ mode.kind = "FastSync" =>
          /\ request.start_height = mode.checkpoint_height
          /\ request.end_height = target
          /\ request.max_blocks = 100
    /\ mode.kind = "FullSync" =>
          /\ request.start_height = mode.start_height
          /\ request.end_height
               = (IF mode.start_height + 50 < target THEN mode.start_height + 50 ELSE target)
          /\ request.max_blocks = 50
    /\ mode.kind = "BlockSync" =>
          LET width == mode.missing_range[2] - mode.missing_range[1] + 1
          IN /\ request.start_height = mode.missing_range[1]
             /\ request.end_height = mode.missing_range[2]
             /\ request.max_blocks = (IF width < 20 THEN width ELSE 20)

\* C29: the request create_sync_request builds is sized by the mode: FastSync
\* gives (checkpoint_height, target_height, 100), FullSync gives (start_height,
\* min(start_height + 50, target_height), 50), BlockSync gives the missing
\* range with max_blocks = min(20, its width).
C29_RequestSizedByMode ==
    /\ LET r == create_sync_request(Self).ret
       IN r.some => /\ sync_mode.kind \in {"FastSync", "FullSync", "BlockSync"}
                    /\ SizedByMode(sync_mode, target_height, r.value.request)
    /\ in_flight.some => SizedByMode(sync_mode, target_height, in_flight.value.request)

\* a request for a missing range of 30 blocks went out, capped at 20
C29_Witness ==
    /\ in_flight.some
    /\ sync_mode.kind = "BlockSync"
    /\ sync_mode.missing_range[2] - sync_mode.missing_range[1] + 1 = 30
    /\ in_flight.value.request.max_blocks = 20

\* a reliability between 0.1 and 1
InUnitRange(reliability) ==
    /\ reliability.n * 10 >= Pow10(reliability.k)
    /\ reliability.n <= Pow10(reliability.k)

\* C30: a response from a known peer with at least one block accepted sets
\* the peer's reliability to 0.9 * old + 0.1, once, and its reported_height to
\* the response's peer_height; a response with no block accepted does not
\* raise the reliability; and every peer's reliability is within [0.1, 1],
\* before and after, also for peers that have been penalized.
C30_ReliabilityRewardAndRange ==
    /\ \A i \in 1..Len(sync_peers) : InUnitRange(sync_peers[i].reliability)
    /\ \A self \in OftenPenalizedManagers, from_peer \in {PeerA, PeerB} :
        \A blocks \in {<<>>, Run(current_height + 1, 1), Run(current_height + 3, 2)} :
            LET i == FindPeer(self.sync_peers, from_peer)
                old == IF i = 0 THEN Dec(0, 0) ELSE self.sync_peers[i].reliability
                r == process_sync_response(self, SyncResponse(blocks, 1101), from_peer)
            IN /\ \A j \in 1..Len(r.self.sync_peers) :
                     InUnitRange(r.self.sync_peers[j].reliability)
               /\ \A j \in 1..Len(self.sync_peers) :
                     InUnitRange(self.sync_peers[j].reliability)
               /\ Len(r.self.sync_peers) = Len(self.sync_peers)
               /\ \A j \in (1..Len(self.sync_peers)) \ {i} :
                     r.self.sync_peers[j] = self.sync_peers[j]
               /\ i # 0 =>
                     /\ r.self.sync_peers[i].reported_height = 1101
                     /\ r.self.sync_peers[i].reliability
                          = (IF blocks # <<>>
                             THEN DecNorm(Dec(9 * old.n + Pow10(old.k), old.k + 1))
                             ELSE old)

\* the peer asked has answered twice and stands at 0.9 * (0.9 * 0.8 + 0.1) + 0.1
C30_Witness ==
    /\ Len(sync_peers) = 1
    /\ sync_peers[1].reliability = Dec(838, 3)
    /\ applied # <<>>

(***************************************************************************)
(* C31: the adapted weights are not consumed.  Two routers that went       *)
(* through different sequences of update_metrics calls, and so hold        *)
(* different weights, but whose latest snapshot is the same, return the    *)
(* same results from select_optimal_path, ai_confidence and                *)
(* predict_performance.                                                    *)
(***************************************************************************)
\* the models a router can hold after at most n calls of update_metrics
RECURSIVE ModelsAfter(_)
ModelsAfter(n) ==
    IF n = 0 THEN {ConsensusRouterNew.ai_model}
    ELSE LET before == ModelsAfter(n - 1)
         IN before \cup {update_metrics([ConsensusRouterNew EXCEPT !.ai_model = model],
                                         metrics).ai_model :
                             model \in before, metrics \in MetricsChoices}

AdaptedModels == ModelsAfter(MaxUpdates)

\* the routers of other histories that were then given the snapshot this one holds
Twins ==
    {update_metrics([ConsensusRouterNew EXCEPT !.ai_model = model], network_metrics) :
        model \in AdaptedModels}

\* the paths a caller can hold: those select_optimal_path returns for some snapshot
PathsAsked ==
    {select_optimal_path([Router EXCEPT !.network_metrics = metrics]) :
        metrics \in MetricsChoices}

\* what a caller learns from the three read operations
Answers(self, paths) ==
    [select_optimal_path |-> select_optimal_path(self),
     ai_confidence |-> ai_confidence(self),
     predict_performance |-> [p \in paths |-> predict_performance(self, p)]]

C31_WeightsNotConsumed ==
    LET paths == PathsAsked
        mine == Answers(Router, paths)
    IN \A twin \in Twins :
           /\ twin.network_metrics = network_metrics
           /\ Answers(twin, paths) = mine

\* a router whose two weights were both adapted and that was asked for a
\* path, with a twin of the same snapshot that holds other weights
C31_Witness ==
    /\ ai_model.weights.security_weight = Dec(5, 1)
    /\ ai_model.weights.performance_weight = Dec(6, 1)
    /\ path = Some(select_optimal_path(Router))
    /\ path.value.kind = "HybridPath"
    /\ \E twin \in Twins :
           /\ twin.ai_model.weights.security_weight = Dec(8, 1)
           /\ twin.ai_model.weights.performance_weight = Dec(4, 1)

(***************************************************************************)
(* C32: in every state reachable through the public operations, a Synced   *)
(* mode implies current_height >= target_height, so that get_sync_progress *)
(* reports 100% whenever is_synced() is true -- also after                 *)
(* check_sync_needed declares the node Synced for a gap of at most 10.     *)
(***************************************************************************)
is_synced(self) == self.sync_mode = Synced

C32_SyncedMeansCaughtUp ==
    is_synced(Self) =>
        /\ current_height >= target_height
        /\ get_sync_progress(Self).progress_percentage = Ratio(100, 1)

(***************************************************************************)
(* C33: delivering a block whose height is at most current_height (a stale *)
(* block, or one that was applied already) does not change current_height, *)
(* and the block of height current_height + 1 delivered after it is still  *)
(* applied.                                                                *)
(***************************************************************************)
StaleBlocks == {GoodBlock(h) : h \in (current_height - 1)..current_height}

C33_StaleBlockIsHarmless ==
    pending_blocks = <<>> =>
        \A stale \in StaleBlocks :
            LET first == process_sync_response(Self, SyncResponse(<<stale>>, 1101), PeerA)
                second == process_sync_response(
                              first.self,
                              SyncResponse(<<GoodBlock(current_height + 1)>>, 1101), PeerA)
            IN /\ first.self.current_height = current_height
               /\ Heights(second.applied) = <<current_height + 1>>
               /\ second.self.current_height = current_height + 1

(***************************************************************************)
(* C34: whenever create_sync_request returns no request (the mode is       *)
(* Synced, or no peer is eligible) it leaves the whole manager unchanged,  *)
(* the is_syncing flag of every peer included.                             *)
(***************************************************************************)
C34_NoRequestNoChange ==
    LET r == create_sync_request(Self)
    IN r.ret = None => r.self = Self

(***************************************************************************)
(* C35: for every request create_sync_request returns, the inclusive range *)
(* of heights it asks for fits its cap:                                    *)
(* end_height - start_height + 1 <= max_blocks, in FastSync, FullSync and  *)
(* BlockSync alike.                                                        *)
(***************************************************************************)
C35_RangeFitsCap ==
    in_flight.some =>
        LET request == in_flight.value.request
        IN request.end_height - request.start_height + 1 <= request.max_blocks

(***************************************************************************)
(* C36: the is_syncing mark is never cleared.  A peer that                 *)
(* create_sync_request marked stays marked through every later call --     *)
(* after its response was processed, after the mode became Synced, after   *)
(* check_sync_needed superseded the sync -- until cleanup_inactive_peers   *)
(* removes the peer, so the active_peers that get_sync_progress reports    *)
(* never decreases except through cleanup.                                 *)
(***************************************************************************)
MarkedPeers(self) ==
    {self.sync_peers[i].node_id :
        i \in {j \in 1..Len(self.sync_peers) : self.sync_peers[j].is_syncing}}

\* the peers cleanup_inactive_peers does not retain
Unreliable(self) ==
    {self.sync_peers[i].node_id :
        i \in {j \in 1..Len(self.sync_peers) :
                  ~DecGT(self.sync_peers[j].reliability, CleanupReliability)}}

KeepsMarks(before, after) ==
    /\ MarkedPeers(before) \subseteq MarkedPeers(after)
    /\ get_sync_progress(after).active_peers >= get_sync_progress(before).active_peers

\* the manager as it is, and with either or both peers penalized down to the
\* reliability at which cleanup removes them
ManagersAtFloor ==
    {Penalize(Penalize(Self, PeerA, a), PeerB, b) :
        a \in {0, SufficientPenalties}, b \in {0, SufficientPenalties}}

C36_MarkNeverCleared ==
    /\ [](\A self \in ManagersAtFloor :
            /\ \A peer_heights \in ProgressLists \cup {<<>>} :
                   KeepsMarks(self, check_sync_needed(self, peer_heights).self)
            /\ KeepsMarks(self, create_sync_request(self).self)
            /\ \A from_peer \in {PeerA, PeerB}, count \in 0..MaxStalled :
                   KeepsMarks(self,
                              process_sync_response(
                                  self, SyncResponse(Run(self.current_height + 1, count), 1101),
                                  from_peer).self)
            /\ MarkedPeers(cleanup_inactive_peers(self))
                   = MarkedPeers(self) \ Unreliable(self))
    /\ [][/\ MarkedPeers(Self) \subseteq MarkedPeers(Self')
           /\ (progress.some /\ progress'.some
                  => progress'.value.active_peers >= progress.value.active_peers)]_vars

\* the peer that was asked has answered, a later check_sync_needed found the
\* node close enough and declared it Synced, and the peer is still counted
C36_Witness ==
    /\ sync_mode = Synced
    /\ in_flight = None
    /\ applied # <<>>
    /\ MarkedPeers(Self) = {PeerA}
    /\ progress.some
    /\ progress.value.active_peers = 1
    /\ get_sync_progress(Self).active_peers = 1

(***************************************************************************)
(* C37: penalties do not survive removal.  A peer that                     *)
(* cleanup_inactive_peers removed and that a later check_sync_needed       *)
(* reports again is added anew with the default reliability 0.8 and        *)
(* is_syncing false, and is then eligible for create_sync_request; a peer  *)
(* that is still known keeps its reliability when check_sync_needed        *)
(* updates its height.                                                     *)
(***************************************************************************)
\* the reachable managers with PeerA penalized 0, 1, 2, ... times
PeerAPenalized == [times \in 0..SufficientPenalties |-> Penalize(Self, PeerA, times)]

C37_PenaltiesEndWithRemoval ==
    \A times \in DOMAIN PeerAPenalized, height \in CatchUpHeights :
        LET self == PeerAPenalized[times]
            known == FindPeer(self.sync_peers, PeerA)
            cleaned == cleanup_inactive_peers(self)
            removed == known # 0 /\ FindPeer(cleaned.sync_peers, PeerA) = 0
            again == check_sync_needed(cleaned, << <<PeerA, height>> >>).self
            readded == FindPeer(again.sync_peers, PeerA)
            updated == check_sync_needed(self, << <<PeerA, height>> >>).self
        IN /\ removed =>
                /\ readded = Len(cleaned.sync_peers) + 1
                /\ again.sync_peers[readded] = SyncPeer(PeerA, height)
                /\ again.sync_peers[readded].reliability = Dec(8, 1)
                /\ ~again.sync_peers[readded].is_syncing
                /\ readded \in EligiblePeers(again)
                /\ Len(again.sync_peers) = 1 =>
                       LET r == create_sync_request(again)
                       IN /\ r.self.sync_peers[readded].is_syncing
                          /\ again.sync_mode # Synced =>
                                 r.ret.some /\ r.ret.value.peer = PeerA
           /\ known # 0 =>
                /\ FindPeer(updated.sync_peers, PeerA) = known
                /\ updated.sync_peers[known] =
                       [self.sync_peers[known] EXCEPT !.reported_height = height]

\* PeerA was asked and rewarded, so it is marked and no longer at 0.8; four
\* penalties take it to the floor, cleanup removes it, and the same report
\* that would only move its height brings it back as a fresh peer
C37_Witness ==
    /\ Len(sync_peers) = 2
    /\ sync_peers[1].node_id = PeerA
    /\ sync_peers[1].is_syncing
    /\ sync_peers[1].reliability = Dec(82, 2)
    /\ FindPeer(cleanup_inactive_peers(PeerAPenalized[SufficientPenalties]).sync_peers,
                PeerA) = 0
    /\ FindPeer(cleanup_inactive_peers(PeerAPenalized[1]).sync_peers, PeerA) = 1

(***************************************************************************)
(* C38: the Merkle root binds the whole list.  Two lists that differ in    *)
(* length or in content never have the same root -- for example a list of  *)
(* 3 items and the list of 4 obtained by repeating its last item -- the    *)
(* hash function being collision-free.                                     *)
(***************************************************************************)
C38_RootBindsTheList ==
    \A other \in DataLists :
        /\ MerkleTreeNew(other).leaves # tree.leaves
              => MerkleTreeNew(other).root # tree.root
        /\ LET mine == [i \in 1..Len(tree.leaves) |->
                          IF tree.leaves[i] = Sha3(<<Byte(1)>>) THEN GoodTx ELSE DataTx]
               theirs == [i \in 1..Len(other) |->
                            IF other[i] = <<Byte(1)>> THEN GoodTx ELSE DataTx]
           IN mine # theirs
                 => BlockCalculateMerkleRoot(mine) # BlockCalculateMerkleRoot(theirs)

(***************************************************************************)
(* C39: proof soundness.  If verify_proof(p) is true and p.root is the     *)
(* root of the tree built from a list L, then p.leaf_hash is the hash of   *)
(* an element of L: a proof whose leaf_hash is an inner node or the root   *)
(* itself, with a shortened or empty path, is not accepted as an inclusion *)
(* proof for L (the hash function being collision-free).                   *)
(***************************************************************************)
\* the proof p with its first k steps folded into the leaf hash
Shortened(p, k) ==
    [leaf_hash |-> FoldProof(p.leaf_hash, SubSeq(p.proof, 1, k)),
     proof |-> SubSeq(p.proof, k + 1, Len(p.proof)),
     root |-> p.root]

\* what a prover can submit without breaking the hash: the proofs the tree
\* generates, each of them shortened from the leaf end, and the bare root
ProofsSubmitted ==
    {[leaf_hash |-> tree.root, proof |-> <<>>, root |-> tree.root]}
        \cup UNION {{Shortened(generate_proof(tree, index).value, k) :
                        k \in 0..Len(generate_proof(tree, index).value.proof)} :
                    index \in 0..(Len(tree.leaves) - 1)}

\* stated for the non-empty lists; for the empty list the all-zero root is
\* accepted as its own proof as well
C39_ProofSoundness ==
    tree.leaves # <<>> =>
        \A p \in ProofsSubmitted :
            verify_proof(p) /\ p.root = tree.root
                => \E i \in 1..Len(tree.leaves) : tree.leaves[i] = p.leaf_hash

(***************************************************************************)
(* C40: the two root computations agree.  For every transaction list --    *)
(* empty, single, of even and of odd length -- the root that Block::new    *)
(* stores and Block.validate recomputes (Block::calculate_merkle_root) is  *)
(* the root of MerkleTree::new over the serialized transactions, so an     *)
(* inclusion proof generated by the MerkleTree carries the root of the     *)
(* block header.                                                           *)
(***************************************************************************)
\* bincode::serialize of each transaction
Serialized(transactions) == [i \in 1..Len(transactions) |-> TxBytes(transactions[i])]

RootsAgree(transactions) ==
    LET block == BlockNew(ZeroHash, transactions, 1)
        merkle_tree == MerkleTreeNew(Serialized(transactions))
    IN /\ block.header.merkle_root = merkle_tree.root
       /\ BlockCalculateMerkleRoot(transactions) = merkle_tree.root
       /\ \A index \in 0..(Len(transactions) - 1) :
              /\ generate_proof(merkle_tree, index).some
              /\ generate_proof(merkle_tree, index).value.root = block.header.merkle_root
              /\ generate_proof(merkle_tree, index).value.leaf_hash
                    = Sha3(TxBytes(transactions[index + 1]))

\* every list of up to MaxRootTxs transactions drawn from two
RootsAgreeForRuns ==
    \A transactions \in SeqsUpTo({GoodTx, ForgedTx}, MaxRootTxs) : RootsAgree(transactions)

C40_RootComputationsAgree ==
    /\ RootsAgreeForRuns
    /\ RootsAgree(candidate.transactions)
    /\ candidate_valid = Some(TRUE)
          => candidate.header.merkle_root
                = MerkleTreeNew(Serialized(candidate.transactions)).root

\* a block of two different transactions that Block.validate accepted: its
\* header root is the MerkleTree root of the serialized transactions
C40_Witness ==
    /\ candidate.transactions = <<GoodTx, DataTx>>
    /\ candidate_valid = Some(TRUE)
    /\ candidate.header.merkle_root
          = MerkleTreeNew(<<TxBytes(GoodTx), TxBytes(DataTx)>>).root
    /\ candidate.header.merkle_root # ZeroHash
    /\ RootsAgree(<<GoodTx, ForgedTx, GoodTx>>)

====
